---- MODULE Spec2Model ----
(***************************************************************************)
(* A model of the storage layer of the code-push server                    *)
(* (src/api/script/storage/azure-storage.ts): the key encoder (module      *)
(* Keys), the table store and the history blob container as the code uses  *)
(* them, and the public operations of class AzureStorage.                  *)
(*                                                                         *)
(* Strings are sequences of character codes (ASCII), so that indexOf,      *)
(* lastIndexOf, substring, toLowerCase and the ordinal comparison of row   *)
(* keys in a range scan are computed as the code and the table service     *)
(* compute them.                                                           *)
(***************************************************************************)
EXTENDS Integers, Sequences, FiniteSets, TLC

(***************************************************************************)
(* Bounds of the model.                                                    *)
(***************************************************************************)
MaxAccounts == 2
MaxDeployments == 2
MaxAccessKeys == 2
MaxTime == 3
MaxLabel == 52

(***************************************************************************)
(* Strings.                                                                *)
(***************************************************************************)
\* JavaScript's undefined, for an optional string argument that was not passed.
Undefined == <<0>>

\* String.prototype.indexOf(sub) !== -1
Contains(s, sub) ==
  \E i \in 1..(Len(s) - Len(sub) + 1) : SubSeq(s, i, i + Len(sub) - 1) = sub

\* String.prototype.lastIndexOf of a one-character string, as a 1-based index
\* (0 when absent).
LastIndexOf(s, ch) ==
  IF \E i \in 1..Len(s) : s[i] = ch[1]
  THEN CHOOSE i \in 1..Len(s) : s[i] = ch[1] /\ \A j \in (i+1)..Len(s) : s[j] # ch[1]
  ELSE 0

\* String.prototype.toLowerCase on ASCII.
ToLowerCase(s) == [i \in 1..Len(s) |-> IF s[i] >= 65 /\ s[i] <= 90 THEN s[i] + 32 ELSE s[i]]

\* The ordinal comparison the table service applies to RowKey in a filter.
StrLess(a, b) ==
  \/ \E i \in 1..Len(a) :
       /\ i <= Len(b)
       /\ a[i] < b[i]
       /\ \A j \in 1..(i - 1) : a[j] = b[j]
  \/ /\ Len(a) < Len(b)
     /\ \A j \in 1..Len(a) : a[j] = b[j]

StrLessEq(a, b) == a = b \/ StrLess(a, b)

(***************************************************************************)
(* module Keys                                                             *)
(***************************************************************************)
DELIMITER == <<32>>
LEAF_MARKER == <<42>>

S_accountId == <<97, 99, 99, 111, 117, 110, 116, 73, 100>>
S_appId == <<97, 112, 112, 73, 100>>
S_deploymentId == <<100, 101, 112, 108, 111, 121, 109, 101, 110, 116, 73, 100>>
S_email == <<101, 109, 97, 105, 108>>
S_deploymentKey == <<100, 101, 112, 108, 111, 121, 109, 101, 110, 116, 75, 101, 121>>
S_accessKey == <<97, 99, 99, 101, 115, 115, 75, 101, 121>>
S_accountId_ == <<97, 99, 99, 111, 117, 110, 116, 73, 100, 95>>
S_accessKeyIdMark == <<95, 97, 99, 99, 101, 115, 115, 75, 101, 121, 73, 100, 42, 95>>
S_deploymentIdMark == <<100, 101, 112, 108, 111, 121, 109, 101, 110, 116, 73, 100, 42>>
S_tilde == <<126>>

\* TRUE when validateParameters returns, FALSE when it throws Invalid.  An empty or
\* undefined parameter is skipped ("parameter && ...").
validateParameters(parameters) ==
  \A i \in 1..Len(parameters) :
    LET p == parameters[i] IN
      p = <<>> \/ p = Undefined \/ ~ (Contains(p, DELIMITER) \/ Contains(p, LEAF_MARKER))

delimit(fieldName, value, prependDelimiter) ==
  (IF prependDelimiter THEN DELIMITER ELSE <<>>) \o fieldName \o DELIMITER \o value

markLeafKeyAtEnd(key) == key \o LEAF_MARKER

\* key.substring(0, lastIdDelimiter) + LEAF_MARKER + key.substring(lastIdDelimiter)
markLeafKey(key) ==
  LET lastIdDelimiter == LastIndexOf(key, DELIMITER)
  IN SubSeq(key, 1, lastIdDelimiter - 1) \o LEAF_MARKER \o SubSeq(key, lastIdDelimiter, Len(key))

generateHierarchicalAppKey(markLeaf, appId, deploymentId) ==
  LET key0 == delimit(S_appId, appId, FALSE)
      key1 == IF deploymentId # Undefined
              THEN key0 \o delimit(S_deploymentId, deploymentId, TRUE)
              ELSE key0
  IN IF markLeaf THEN markLeafKey(key1) ELSE key1

generateHierarchicalAccountKey(markLeaf, accountId, appId) ==
  LET key0 == delimit(S_accountId, accountId, FALSE)
      key1 == IF appId # Undefined
              THEN key0 \o delimit(S_appId, appId, TRUE)
              ELSE key0
  IN IF markLeaf THEN markLeafKey(key1) ELSE key1

getAccountPartitionKey(accountId) == S_accountId \o DELIMITER \o accountId

getAppPartitionKey(appId) == S_appId \o DELIMITER \o appId

getHierarchicalAppRowKey(appId, deploymentId) ==
  generateHierarchicalAppKey(TRUE, appId, deploymentId)

getHierarchicalAccountRowKey(accountId, appId) ==
  generateHierarchicalAccountKey(TRUE, accountId, appId)

getAccountAddress(accountId) ==
  [partitionKeyPointer |-> getAccountPartitionKey(accountId),
   rowKeyPointer |-> getHierarchicalAccountRowKey(accountId, Undefined)]

getAccessKeyRowKey(accountId, accessKeyId) ==
  LET key == S_accountId_ \o accountId \o S_accessKeyIdMark
  IN IF accessKeyId # Undefined THEN key \o accessKeyId ELSE key

isDeployment(rowKey) == Contains(rowKey, S_deploymentIdMark)

getEmailShortcutAddressCaseSensitive(email) ==
  [partitionKeyPointer |-> S_email \o DELIMITER \o email, rowKeyPointer |-> <<>>]

getEmailShortcutAddress(email) ==
  [partitionKeyPointer |-> S_email \o DELIMITER \o ToLowerCase(email), rowKeyPointer |-> <<>>]

getShortcutDeploymentKeyPartitionKey(deploymentKey) ==
  delimit(S_deploymentKey, deploymentKey, FALSE)

getShortcutDeploymentKeyRowKey == <<>>

\* utils.hashWithSHA256: a hex digest, modelled as an injective image of the input
\* that is never itself an input (it starts with the character '#').
hashWithSHA256(s) == <<35>> \o s

getShortcutAccessKeyPartitionKey(accessKeyName, hash) ==
  delimit(S_accessKey, IF hash THEN hashWithSHA256(accessKeyName) ELSE accessKeyName, FALSE)

(***************************************************************************)
(* State.                                                                  *)
(*   table      the rows of table "storagev2": (partitionKey, rowKey) ->   *)
(*              the row's properties                                       *)
(*   blobs      the history container: blob name -> content                *)
(*   pendingTx  delete batches handed to submitTransaction whose outcome   *)
(*              the service has not produced yet                           *)
(*   removed    the app ids for which removeApp has returned successfully  *)
(*   nextId     the number of ids shortid.generate() has issued            *)
(*   now        the wall clock (new Date().getTime())                      *)
(*   last       the last public operation: its name, the identifiers it    *)
(*              builds keys from, the time of the call, its outcome, the   *)
(*              number of table and blob calls it issued and its result    *)
(***************************************************************************)
VARIABLES table, blobs, pendingTx, removed, nextId, now, last,
          backend, attempts, handles, removal, commits

vars == <<table, blobs, pendingTx, removed, nextId, now, last,
          backend, attempts, handles, removal, commits>>

\* JavaScript's null, for a string-valued result.
Null == <<1>>

(***************************************************************************)
(* Errors.  A storage.storageError carries a numeric code (one of the      *)
(* canonical classifications); an error of the table or blob client        *)
(* carries a string code; a plain Error carries none.                      *)
(***************************************************************************)
NoErr == [src |-> "none", code |-> "none"]
storageError(code) == [src |-> "storage", code |-> code]
azureError(code) == [src |-> "azure", code |-> code]
plainError == [src |-> "plain", code |-> "undefined"]

azureErrorHandlerRetranslating(err) ==
  IF err.code \in {"BlobNotFound", "ResourceNotFound", "TableNotFound"} THEN storageError("NotFound")
  ELSE IF err.code \in {"EntityAlreadyExists", "TableAlreadyExists"} THEN storageError("AlreadyExists")
  ELSE storageError("Other")

\* typeof errorCodeRaw === "number": a storage error is re-thrown as it is.
azureErrorHandler(err) ==
  IF err.src = "storage" THEN err
  ELSE IF err.code \in {"BlobNotFound", "ResourceNotFound", "TableNotFound"} THEN storageError("NotFound")
  ELSE IF err.code \in {"EntityAlreadyExists", "TableAlreadyExists"} THEN storageError("AlreadyExists")
  ELSE IF err.code \in {"EntityTooLarge", "PropertyValueTooLarge"} THEN storageError("TooLarge")
  ELSE IF err.code \in {"ETIMEDOUT", "ESOCKETTIMEDOUT", "ECONNRESET"} THEN storageError("ConnectionFailed")
  ELSE storageError("Other")

(***************************************************************************)
(* Lifecycle state.                                                        *)
(*   backend   what the storage account holds of each provisioned          *)
(*             resource (the table "storagev2", the blob containers        *)
(*             "storagev2" and "packagehistoryv1"): "absent", "empty" (it  *)
(*             exists without its "health" sentinel), "health" (the        *)
(*             sentinel holds "health") or "other" (it holds another       *)
(*             value)                                                      *)
(*   attempts  the calls of setup, in the order they were started; the     *)
(*             first is the constructor's, whose promise is _setupPromise  *)
(*   handles   for each of _tableClient and _blobService, 0 while it is    *)
(*             unset, else the attempt that assigned it last               *)
(*   removal   the removeApp call in progress, when it is followed step    *)
(*             by step                                                     *)
(***************************************************************************)
TABLE == "table"
TABLE_NAME == "storagev2"
HISTORY_BLOB_CONTAINER_NAME == "packagehistoryv1"
Resources == {TABLE, TABLE_NAME, HISTORY_BLOB_CONTAINER_NAME}

MaxAttempts == 2

\* throw new Error("Azure credentials not set")
credentialsError == plainError
\* Any rejection of a provisioning call that is not an already-exists answer.
faultError == azureError("ETIMEDOUT")

\* setup up to its first await: without credentials it throws; with them it
\* builds the clients and issues createTable and both createContainer calls.
NewAttempt(credentials) ==
  [phase |-> IF credentials THEN "creating" ELSE "failed",
   error |-> IF credentials THEN NoErr ELSE credentialsError,
   creates |-> [r \in Resources |-> IF credentials THEN "pending" ELSE "idle"],
   writes |-> [r \in Resources |-> "idle"]]

\* The answer of the service to a create call.  TableServiceClient.createTable
\* resolves when the table exists already; createContainer rejects with
\* ContainerAlreadyExists.
createAnswer(r, state, fault) ==
  IF fault THEN faultError
  ELSE IF r # TABLE /\ state # "absent" THEN azureError("ContainerAlreadyExists")
  ELSE NoErr

\* The answer to a sentinel write: createEntity rejects when the row exists,
\* uploadBlockBlob overwrites.
writeAnswer(r, state, fault) ==
  IF fault THEN faultError
  ELSE IF state = "absent" THEN azureError("ResourceNotFound")
  ELSE IF r = TABLE /\ state # "empty" THEN azureError("EntityAlreadyExists")
  ELSE NoErr

Settled(answer) == IF answer = NoErr THEN "ok" ELSE answer.code

\* catch (error) { if (error.code == "ContainerAlreadyExists") { install } else { throw error } }
caught(attempt, answer) ==
  IF answer.code = "ContainerAlreadyExists"
  THEN [attempt EXCEPT !.phase = "installed"]
  ELSE [attempt EXCEPT !.phase = "failed", !.error = answer]

\* setup resumed by the answer to one of its create calls.  Promise.all
\* rejects with the first rejection and resolves when all three resolved;
\* an answer that arrives after setup has returned changes nothing.
afterCreate(attempt, r, answer) ==
  LET a1 == [attempt EXCEPT !.creates[r] = Settled(answer)]
  IN IF attempt.phase # "creating" THEN a1
     ELSE IF answer # NoErr THEN caught(a1, answer)
     ELSE IF \A q \in Resources : a1.creates[q] = "ok"
     THEN [a1 EXCEPT !.phase = "writing", !.writes = [q \in Resources |-> "pending"]]
     ELSE a1

\* setup resumed by the answer to one of its sentinel writes.
afterWrite(attempt, r, answer) ==
  LET a1 == [attempt EXCEPT !.writes[r] = Settled(answer)]
  IN IF attempt.phase # "writing" THEN a1
     ELSE IF answer # NoErr THEN caught(a1, answer)
     ELSE IF \A q \in Resources : a1.writes[q] = "ok"
     THEN [a1 EXCEPT !.phase = "installed"]
     ELSE a1

\* _tableClient and _blobService before the first assignment.
NoHandles == [tableClient |-> 0, blobService |-> 0]

\* An installation that stops after the first of the two assignments.
installTableClient(h, a) == [h EXCEPT !.tableClient = a]

\* this._tableClient = tableClient; this._blobService = blobServiceClient;
\* two assignments with no await between them, in the try block and in the
\* catch block alike.
install(h, a) == [h EXCEPT !.tableClient = a, !.blobService = a]

inProgress(attempt) == attempt.phase \in {"creating", "writing"}

\* _setupPromise has resolved or rejected: what every operation awaits.
setupSettled == ~ inProgress(attempts[1])

\* A sentinel read by checkHealth: a mismatch is ConnectionFailed; getEntity
\* and downloadToBuffer reject with the client's own error when the
\* sentinel or its resource is absent, and checkHealth passes it on.
sentinelCheck(state) ==
  IF state = "health" THEN NoErr
  ELSE IF state = "other" THEN storageError("ConnectionFailed")
  ELSE azureError("ResourceNotFound")

\* Promise.all of the three checks: the first rejection, if there is one.
healthAnswers(b) ==
  LET failures == {sentinelCheck(b[r]) : r \in Resources} \ {NoErr}
  IN IF failures = {} THEN {NoErr} ELSE failures

(***************************************************************************)
(* The run of one operation: the stores as the operation has left them so  *)
(* far, the calls it has issued, and the error it has thrown (NoErr while  *)
(* it is running).  Every step is skipped once an error is thrown.         *)
(***************************************************************************)
Failed(c) == c.err # NoErr

\* await this._setupPromise: the promise of the constructor's attempt, which
\* rejects with the error its setup threw.
awaitSetup(c) ==
  IF ~ Failed(c) /\ c.setup # NoErr THEN [c EXCEPT !.err = c.setup] ELSE c

\* An operation as it is called: the stores and _setupPromise as it finds them.
Begin == [t |-> table, b |-> blobs, tx |-> pendingTx, calls |-> 0, err |-> NoErr,
          setup |-> attempts[1].error]

\* An operation whose try block opens with the await.
Start == awaitSetup(Begin)

Throw(c, err) == IF Failed(c) THEN c ELSE [c EXCEPT !.err = err]

\* A Keys function called with these parameters: validateParameters throws Invalid.
Validate(c, parameters) ==
  IF Failed(c) \/ validateParameters(parameters) THEN c
  ELSE [c EXCEPT !.err = storageError("Invalid")]

\* catch (error) { throw AzureStorage.azureErrorHandler(error); }
Handle(c) == IF Failed(c) THEN [c EXCEPT !.err = azureErrorHandler(@)] ELSE c

(***************************************************************************)
(* The table client.                                                       *)
(***************************************************************************)
Merge(old, upd) ==
  [p \in DOMAIN old \cup DOMAIN upd |-> IF p \in DOMAIN upd THEN upd[p] ELSE old[p]]

Without(f, keys) == [k \in DOMAIN f \ keys |-> f[k]]

createEntity(c, pk, rk, props) ==
  IF Failed(c) THEN c
  ELSE IF <<pk, rk>> \in DOMAIN c.t
  THEN [c EXCEPT !.calls = @ + 1, !.err = azureError("EntityAlreadyExists")]
  ELSE [c EXCEPT !.calls = @ + 1, !.t = @ @@ (<<pk, rk>> :> props)]

getEntity(c, pk, rk) ==
  IF Failed(c) THEN c
  ELSE IF <<pk, rk>> \notin DOMAIN c.t
  THEN [c EXCEPT !.calls = @ + 1, !.err = azureError("ResourceNotFound")]
  ELSE [c EXCEPT !.calls = @ + 1]

\* updateEntity(entity) with the client's default mode, "Merge".
updateEntity(c, pk, rk, props) ==
  IF Failed(c) THEN c
  ELSE IF <<pk, rk>> \notin DOMAIN c.t
  THEN [c EXCEPT !.calls = @ + 1, !.err = azureError("ResourceNotFound")]
  ELSE [c EXCEPT !.calls = @ + 1, !.t[<<pk, rk>>] = Merge(@, props)]

deleteEntity(c, pk, rk) ==
  IF Failed(c) THEN c
  ELSE IF <<pk, rk>> \notin DOMAIN c.t
  THEN [c EXCEPT !.calls = @ + 1, !.err = azureError("ResourceNotFound")]
  ELSE [c EXCEPT !.calls = @ + 1, !.t = Without(@, {<<pk, rk>>})]

\* The rows a filter "PartitionKey eq pk and (RowKey eq rk or (RowKey gt|ge lo and
\* RowKey lt hi))" selects.
Selected(t, pk, rk, lo, loInclusive, hi) ==
  {k \in DOMAIN t :
     /\ k[1] = pk
     /\ \/ k[2] = rk
        \/ /\ IF loInclusive THEN StrLessEq(lo, k[2]) ELSE StrLess(lo, k[2])
           /\ StrLess(k[2], hi)}

\* One listEntities call (the rows are read with Selected).
listEntities(c) == IF Failed(c) THEN c ELSE [c EXCEPT !.calls = @ + 1]

\* The unwrap of a row: its properties without the keys (the model keeps the keys
\* apart from the properties).
retrieveByKey(c, pk, rk) == getEntity(c, pk, rk)

Row(c, pk, rk) == c.t[<<pk, rk>>]

(***************************************************************************)
(* The blob client of the history container.                               *)
(***************************************************************************)
uploadToHistoryBlob(c, blobId, content) ==
  IF Failed(c) THEN c
  ELSE [c EXCEPT !.calls = @ + 1,
                 !.b = [n \in DOMAIN @ \cup {blobId} |-> IF n = blobId THEN content ELSE @[n]]]

getPackageHistoryFromBlob(c, blobId) ==
  IF Failed(c) THEN c
  ELSE IF blobId \notin DOMAIN c.b
  THEN [c EXCEPT !.calls = @ + 1, !.err = azureError("BlobNotFound")]
  ELSE [c EXCEPT !.calls = @ + 1]

deleteHistoryBlob(c, blobId) ==
  IF Failed(c) THEN c
  ELSE IF blobId \notin DOMAIN c.b
  THEN [c EXCEPT !.calls = @ + 1, !.err = azureError("BlobNotFound")]
  ELSE [c EXCEPT !.calls = @ + 1, !.b = Without(@, {blobId})]

\* JSON.stringify and JSON.parse of a value the code serialises into one property
\* or into a blob: the serialised form is kept apart from the value.
Stringify(v) == [json |-> v]
Parse(s) == s.json

(***************************************************************************)
(* Entity mapper and collaborator helpers.                                 *)
(***************************************************************************)
EmptyMap == [e \in {} |-> e]

\* The first email of the map whose entry has this account id, else null.  An
\* account has one email, so at most one entry matches.
getEmailForAccountId(collaboratorsMap, accountId) ==
  IF \E e \in DOMAIN collaboratorsMap : collaboratorsMap[e].accountId = accountId
  THEN CHOOSE e \in DOMAIN collaboratorsMap : collaboratorsMap[e].accountId = accountId
  ELSE Null

\* A check that takes nobody for the owner.
isOwnerOfNothing(collaboratorsMap, email) == FALSE

isOwner(collaboratorsMap, email) ==
  email \in DOMAIN collaboratorsMap /\ collaboratorsMap[email].permission = "Owner"

isCollaborator(collaboratorsMap, email) ==
  email \in DOMAIN collaboratorsMap /\ collaboratorsMap[email].permission = "Collaborator"

\* A null email, or one that is no key of the map, changes nothing.
setCollaboratorPermission(collaboratorsMap, email, permission) ==
  IF email # Null /\ email \in DOMAIN collaboratorsMap
  THEN [collaboratorsMap EXCEPT ![email] = Merge(@, [permission |-> permission])]
  ELSE collaboratorsMap

addToCollaborators(collaboratorsMap, email, collabProps) ==
  IF email # Null /\ email \notin DOMAIN collaboratorsMap
  THEN [e \in DOMAIN collaboratorsMap \cup {email} |->
          IF e = email THEN collabProps ELSE collaboratorsMap[e]]
  ELSE collaboratorsMap

\* The map as it is, the marks of unflattenApp included.
keepIsCurrentAccountProperty(map) == map

deleteIsCurrentAccountProperty(map) ==
  [e \in DOMAIN map |-> [p \in DOMAIN map[e] \ {"isCurrentAccount"} |-> map[e][p]]]

\* A flattening that writes `collaborators` whatever the caller is persisting.
flattenAppWithCollaborators(app, updateCollaborator) ==
  [p \in DOMAIN app |->
     IF p = "collaborators"
     THEN Stringify(deleteIsCurrentAccountProperty(app.collaborators))
     ELSE app[p]]

\* The properties of the row written for an app: without `collaborators` unless
\* the caller is persisting a collaborator change.
flattenApp(app, updateCollaborator) ==
  [p \in (DOMAIN app \ {"collaborators"})
         \cup (IF updateCollaborator THEN DOMAIN app \cap {"collaborators"} ELSE {}) |->
     IF p = "collaborators"
     THEN Stringify(deleteIsCurrentAccountProperty(app.collaborators))
     ELSE app[p]]

unflattenApp(flatApp, currentAccountId) ==
  LET collaborators == IF "collaborators" \in DOMAIN flatApp
                       THEN Parse(flatApp.collaborators) ELSE EmptyMap
      currentUserEmail == getEmailForAccountId(collaborators, currentAccountId)
      marked == IF currentUserEmail # Null
                THEN [collaborators EXCEPT
                        ![currentUserEmail] = Merge(@, [isCurrentAccount |-> TRUE])]
                ELSE collaborators
  IN Merge(flatApp, [collaborators |-> marked])

\* A flattening that writes `package` with the other properties.
flattenDeploymentWithPackage(deployment) ==
  [p \in DOMAIN deployment |->
     IF p = "package" THEN Stringify(deployment.package) ELSE deployment[p]]

flattenDeployment(deployment) ==
  [p \in DOMAIN deployment \ {"package"} |-> deployment[p]]

NullPackage == [label |-> Null, rollout |-> "null", releasedBy |-> Null]

unflattenDeployment(flatDeployment) ==
  Merge(flatDeployment,
        [package |-> IF "package" \in DOMAIN flatDeployment
                     THEN Parse(flatDeployment.package) ELSE NullPackage])

(***************************************************************************)
(* Accounts.                                                               *)
(***************************************************************************)
\* shortid.generate(): the n-th id issued, two characters of shortid's alphabet.
GenId(n) == <<48 + (n \div 10), 48 + (n % 10)>>

addAccount(c, id, email) ==
  LET c1 == awaitSetup(Validate(Validate(c, <<id>>), <<email>>))
      hierarchicalAddress == getAccountAddress(id)
      emailShortcutAddress == getEmailShortcutAddress(email)
      accountPointer == getEmailShortcutAddress(email)
      c2 == createEntity(c1, emailShortcutAddress.partitionKeyPointer,
                         emailShortcutAddress.rowKeyPointer, [id |-> id, email |-> email])
      c3 == createEntity(c2, hierarchicalAddress.partitionKeyPointer,
                         hierarchicalAddress.rowKeyPointer, accountPointer)
  IN Handle(c3)

\* getAccount: the run, and the account it returns when it has not failed.
getAccount(c, accountId) ==
  LET c1 == awaitSetup(Validate(c, <<accountId>>))
      address == getAccountAddress(accountId)
      c2 == retrieveByKey(c1, address.partitionKeyPointer, address.rowKeyPointer)
      pointer == Row(c, address.partitionKeyPointer, address.rowKeyPointer)
      c3 == IF Failed(c2) THEN c2
            ELSE retrieveByKey(c2, pointer.partitionKeyPointer, pointer.rowKeyPointer)
  IN Handle(c3)

getAccountResult(c, accountId) ==
  LET address == getAccountAddress(accountId)
      pointer == Row(c, address.partitionKeyPointer, address.rowKeyPointer)
  IN Row(c, pointer.partitionKeyPointer, pointer.rowKeyPointer)

getAccountByEmail(c, email) ==
  LET c1 == awaitSetup(Validate(c, <<email>>))
      address == getEmailShortcutAddress(email)
  IN Handle(retrieveByKey(c1, address.partitionKeyPointer, address.rowKeyPointer))

getAccountByEmailResult(c, email) ==
  LET address == getEmailShortcutAddress(email)
  IN Row(c, address.partitionKeyPointer, address.rowKeyPointer)

(***************************************************************************)
(* Apps.                                                                   *)
(***************************************************************************)
retrieveByAppHierarchy(c, appId, deploymentId) ==
  retrieveByKey(Validate(c, <<appId, deploymentId>>),
                getAppPartitionKey(appId), getHierarchicalAppRowKey(appId, deploymentId))

retrieveByAppHierarchyResult(c, appId, deploymentId) ==
  Row(c, getAppPartitionKey(appId), getHierarchicalAppRowKey(appId, deploymentId))

\* insertByAppHierarchy(jsObject, appId[, deploymentId]): with a deployment id the
\* parent (the app row) is read first.
insertByAppHierarchy(c, jsObject, appId, deploymentId) ==
  LET c1 == Validate(c, <<appId>>)
      appPartitionKey == getAppPartitionKey(appId)
      c2 == IF deploymentId # Undefined
            THEN getEntity(c1, appPartitionKey, getHierarchicalAppRowKey(appId, Undefined))
            ELSE c1
      c3 == Validate(c2, <<appId, deploymentId>>)
  IN createEntity(c3, appPartitionKey, getHierarchicalAppRowKey(appId, deploymentId), jsObject)

mergeByAppHierarchy(c, jsObject, appId, deploymentId) ==
  updateEntity(Validate(c, <<appId, deploymentId>>),
               getAppPartitionKey(appId), getHierarchicalAppRowKey(appId, deploymentId), jsObject)

\* The same call as mergeByAppHierarchy: updateEntity with the default mode.
updateByAppHierarchy(c, jsObject, appId, deploymentId) ==
  updateEntity(Validate(c, <<appId, deploymentId>>),
               getAppPartitionKey(appId), getHierarchicalAppRowKey(appId, deploymentId), jsObject)

addAppPointerToAccount(c, accountId, appId) ==
  LET c1 == Validate(Validate(c, <<appId>>), <<accountId, appId>>)
  IN createEntity(c1, getAccountPartitionKey(accountId),
                  getHierarchicalAccountRowKey(accountId, appId), getAccountAddress(accountId))

addAppPointer(c, accountId, appId) ==
  LET c1 == Validate(Validate(c, <<appId>>), <<accountId, appId>>)
      pointer == [partitionKeyPointer |-> getAppPartitionKey(appId),
                  rowKeyPointer |-> getHierarchicalAppRowKey(appId, Undefined)]
  IN createEntity(c1, getAccountPartitionKey(accountId),
                  getHierarchicalAccountRowKey(accountId, appId), pointer)

removeAppPointer(c, accountId, appId) ==
  deleteEntity(Validate(c, <<accountId, appId>>), getAccountPartitionKey(accountId),
               getHierarchicalAccountRowKey(accountId, appId))

updateAppWithPermission(c, accountId, app, updateCollaborator) ==
  mergeByAppHierarchy(c, flattenApp(app, updateCollaborator), app.id, Undefined)

\* if (!appId) throw new Error("No app id"), then the try block.
updateApp(c, accountId, app) ==
  IF app.id \in {<<>>, Undefined, Null} THEN Throw(c, plainError)
  ELSE Handle(updateAppWithPermission(awaitSetup(c), accountId, app, FALSE))

getApp(c, accountId, appId) == Handle(retrieveByAppHierarchy(c, appId, Undefined))

getAppResult(c, accountId, appId) ==
  unflattenApp(retrieveByAppHierarchyResult(c, appId, Undefined), accountId)

addApp(c, id, accountId, name) ==
  LET c1 == getAccount(c, accountId)
      account == getAccountResult(c, accountId)
      collabMap == [e \in {account.email} |-> [accountId |-> accountId, permission |-> "Owner"]]
      app == [name |-> name, id |-> id, collaborators |-> collabMap]
      c2 == IF Failed(c1) THEN c1
            ELSE insertByAppHierarchy(c1, flattenApp(app, TRUE), id, Undefined)
      c3 == addAppPointer(c2, accountId, id)
  IN Handle(c3)

(* Children listing.                                                       *)
(***************************************************************************)
isPointer(row) ==
  /\ "partitionKeyPointer" \in DOMAIN row /\ row.partitionKeyPointer # <<>>
  /\ "rowKeyPointer" \in DOMAIN row /\ row.rowKeyPointer # <<>>

\* getLeafEntities: the keys of the rows it returns.  A row that is a Pointer is
\* replaced by the scan of the partition it points into.
RECURSIVE getLeafEntities(_, _, _, _)
getLeafEntities(t, pk, rk, childrenSearchKey) ==
  LET found == Selected(t, pk, rk, childrenSearchKey, FALSE, childrenSearchKey \o S_tilde)
      pointers == {k \in found : isPointer(t[k])}
  IN (found \ pointers) \cup
     UNION {getLeafEntities(t, t[k].partitionKeyPointer, t[k].rowKeyPointer, childrenSearchKey) :
              k \in pointers}

\* The number of listEntities calls getLeafEntities issues.
RECURSIVE SumOver(_, _, _)
SumOver(t, keys, childrenSearchKey) ==
  IF keys = {} THEN 0
  ELSE LET k == CHOOSE x \in keys : TRUE
           found == Selected(t, t[k].partitionKeyPointer, t[k].rowKeyPointer,
                             childrenSearchKey, FALSE, childrenSearchKey \o S_tilde)
       IN 1 + SumOver(t, {x \in found : isPointer(t[x])}, childrenSearchKey)
            + SumOver(t, keys \ {k}, childrenSearchKey)

getLeafEntitiesCalls(t, pk, rk, childrenSearchKey) ==
  LET found == Selected(t, pk, rk, childrenSearchKey, FALSE, childrenSearchKey \o S_tilde)
  IN 1 + SumOver(t, {k \in found : isPointer(t[k])}, childrenSearchKey)

\* The keys of the parent and of the children, as getCollectionByHierarchy computes them.
collectionPartitionKey(accountId, appId) ==
  IF appId # Undefined /\ appId # <<>> THEN getAppPartitionKey(appId)
  ELSE getAccountPartitionKey(accountId)

collectionRowKey(accountId, appId) ==
  IF appId # Undefined /\ appId # <<>> THEN getHierarchicalAppRowKey(appId, Undefined)
  ELSE getHierarchicalAccountRowKey(accountId, Undefined)

collectionSearchKey(accountId, appId) ==
  IF appId # Undefined /\ appId # <<>> THEN generateHierarchicalAppKey(TRUE, appId, <<>>)
  ELSE generateHierarchicalAccountKey(TRUE, accountId, <<>>)

collectionEntities(c, accountId, appId) ==
  getLeafEntities(c.t, collectionPartitionKey(accountId, appId),
                  collectionRowKey(accountId, appId), collectionSearchKey(accountId, appId))

\* throw new Error("Entity not found")
entityNotFoundError == plainError

\* A scan that rejects when a Pointer it meets leads to no row.
getCollectionByHierarchyStrict(c, accountId, appId) ==
  LET c1 == IF appId # Undefined /\ appId # <<>>
            THEN Validate(c, <<appId>>) ELSE Validate(c, <<accountId>>)
      searchKey == collectionSearchKey(accountId, appId)
      found == Selected(c.t, collectionPartitionKey(accountId, appId),
                        collectionRowKey(accountId, appId), searchKey, FALSE,
                        searchKey \o S_tilde)
      dangling == {k \in found : /\ isPointer(c.t[k])
                                 /\ <<c.t[k].partitionKeyPointer, c.t[k].rowKeyPointer>>
                                      \notin DOMAIN c.t}
  IN IF Failed(c1) THEN c1
     ELSE IF dangling # {} \/ collectionEntities(c, accountId, appId) = {}
     THEN [c1 EXCEPT !.calls = @ + 1, !.err = entityNotFoundError]
     ELSE [c1 EXCEPT !.calls = @ + 1]

getCollectionByHierarchy(c, accountId, appId) ==
  LET c1 == IF appId # Undefined /\ appId # <<>>
            THEN Validate(c, <<appId>>) ELSE Validate(c, <<accountId>>)
      n == getLeafEntitiesCalls(c.t, collectionPartitionKey(accountId, appId),
                                collectionRowKey(accountId, appId),
                                collectionSearchKey(accountId, appId))
  IN IF Failed(c1) THEN c1
     ELSE IF collectionEntities(c, accountId, appId) = {}
     THEN [c1 EXCEPT !.calls = @ + n, !.err = entityNotFoundError]
     ELSE [c1 EXCEPT !.calls = @ + n]

\* The keys of the rows returned: the parent is left out.
getCollectionByHierarchyResult(c, accountId, appId) ==
  {k \in collectionEntities(c, accountId, appId) : k[2] # collectionRowKey(accountId, appId)}

getApps(c, accountId) == Handle(getCollectionByHierarchy(c, accountId, Undefined))

getAppsResult(c, accountId) ==
  {unflattenApp(c.t[k], accountId) : k \in getCollectionByHierarchyResult(c, accountId, Undefined)}

getDeployments(c, accountId, appId) == Handle(getCollectionByHierarchy(c, accountId, appId))

getDeploymentsResult(c, accountId, appId) ==
  {unflattenDeployment(c.t[k]) : k \in getCollectionByHierarchyResult(c, accountId, appId)}

getDeployment(c, accountId, appId, deploymentId) ==
  Handle(retrieveByAppHierarchy(c, appId, deploymentId))

getDeploymentResult(c, accountId, appId, deploymentId) ==
  unflattenDeployment(retrieveByAppHierarchyResult(c, appId, deploymentId))

(* Collaborators and ownership.                                            *)
(***************************************************************************)
\* Promise.all of two reads started from the same run: both issue their calls; the
\* rejection that surfaces is that of the one that fails, and when both fail that
\* of the one that settles first.
Gather(c, cA, cB, firstIsA) ==
  [c EXCEPT !.calls = cA.calls + cB.calls - c.calls,
            !.err = IF Failed(c) THEN c.err
                    ELSE IF Failed(cA) /\ Failed(cB) THEN (IF firstIsA THEN cA.err ELSE cB.err)
                    ELSE IF Failed(cA) THEN cA.err
                    ELSE cB.err]

\* storage.NameResolver.isDuplicate(apps, name): whether the target already has an
\* app of this name; it can only answer yes when one of the apps has the name.
isDuplicate(apps, name, answer) == answer /\ \E a \in apps : a.name = name

addCollaboratorWithPermissions(c, accountId, app, email, collabProperties) ==
  IF email \notin DOMAIN app.collaborators
  THEN LET app1 == [app EXCEPT !.collaborators =
                      [e \in DOMAIN @ \cup {email} |-> IF e = email THEN collabProperties ELSE @[e]]]
       IN addAppPointer(updateAppWithPermission(c, accountId, app1, TRUE),
                        collabProperties.accountId, app.id)
  ELSE Throw(c, storageError("AlreadyExists"))

addCollaborator(c, accountId, appId, email, firstIsA) ==
  LET c1 == Gather(c, getApp(c, accountId, appId), getAccountByEmail(c, email), firstIsA)
      app == getAppResult(c, accountId, appId)
      account == getAccountByEmailResult(c, email)
      c2 == IF Failed(c1) THEN c1
            ELSE addCollaboratorWithPermissions(c1, accountId, app, account.email,
                   [accountId |-> account.id, permission |-> "Collaborator"])
  IN Handle(c2)

removeCollaborator(c, accountId, appId, email) ==
  LET c1 == getApp(c, accountId, appId)
      app == getAppResult(c, accountId, appId)
      c2 == IF Failed(c1) THEN c1
            ELSE IF email \notin DOMAIN app.collaborators
            THEN Throw(c1, storageError("NotFound"))
            ELSE IF isOwner(app.collaborators, email)
            THEN Throw(c1, storageError("AlreadyExists"))
            ELSE LET app1 == [app EXCEPT !.collaborators = Without(@, {email})]
                 IN removeAppPointer(updateAppWithPermission(c1, accountId, app1, TRUE),
                                     app.collaborators[email].accountId, app.id)
  IN Handle(c2)

\* The collaborators map transferApp writes back.
transferredCollaborators(collaborators, requestingCollaboratorEmail, email, targetAccountId) ==
  LET demoted == setCollaboratorPermission(collaborators, requestingCollaboratorEmail, "Collaborator")
  IN IF isCollaborator(collaborators, email)
     THEN setCollaboratorPermission(demoted, email, "Owner")
     ELSE addToCollaborators(demoted, email, [accountId |-> targetAccountId, permission |-> "Owner"])

transferApp(c, accountId, appId, emailArg, firstIsA, answer) ==
  LET c1 == Gather(c, getApp(c, accountId, appId), getAccountByEmail(c, emailArg), firstIsA)
      app == getAppResult(c, accountId, appId)
      account == getAccountByEmailResult(c, emailArg)
      targetCollaboratorAccountId == account.id
      email == account.email
      requestingCollaboratorEmail == getEmailForAccountId(app.collaborators, accountId)
      c2 == IF Failed(c1) THEN c1
            ELSE IF requestingCollaboratorEmail = email
            THEN Throw(c1, storageError("AlreadyExists"))
            ELSE getApps(c1, targetCollaboratorAccountId)
      c3 == IF Failed(c2) THEN c2
            ELSE IF isDuplicate(getAppsResult(c, targetCollaboratorAccountId), app.name, answer)
            THEN Throw(c2, storageError("AlreadyExists"))
            ELSE LET isTargetAlreadyCollaborator == isCollaborator(app.collaborators, email)
                     app1 == [app EXCEPT !.collaborators =
                                transferredCollaborators(@, requestingCollaboratorEmail, email,
                                                         targetCollaboratorAccountId)]
                     c4 == updateAppWithPermission(c2, accountId, app1, TRUE)
                 IN IF isTargetAlreadyCollaborator THEN c4
                    ELSE addAppPointer(c4, targetCollaboratorAccountId, app.id)
  IN Handle(c3)

(* Cascade.                                                                *)
(***************************************************************************)
\* A scan that looks for the descendants of the app whatever the deployment is.
cleanUpBatchOfApp(t, appId, deploymentId) ==
  LET descendantsSearchKey == generateHierarchicalAppKey(FALSE, appId, Undefined)
  IN Selected(t, getAppPartitionKey(appId), getHierarchicalAppRowKey(appId, deploymentId),
              descendantsSearchKey, TRUE, descendantsSearchKey \o S_tilde)

\* The rows cleanUpByAppHierarchy collects into its delete batch.
cleanUpBatch(t, appId, deploymentId) ==
  LET descendantsSearchKey == generateHierarchicalAppKey(FALSE, appId, deploymentId)
  IN Selected(t, getAppPartitionKey(appId), getHierarchicalAppRowKey(appId, deploymentId),
              descendantsSearchKey, TRUE, descendantsSearchKey \o S_tilde)

\* submitTransaction is called and its promise dropped: the batch is handed to the
\* service and cleanUpByAppHierarchy returns without waiting for the outcome.
cleanUpByAppHierarchy(c, appId, deploymentId) ==
  LET c1 == listEntities(Validate(c, <<appId, deploymentId>>))
      tableBatch == cleanUpBatch(c.t, appId, deploymentId)
  IN IF Failed(c1) \/ tableBatch = {} THEN c1
     ELSE [c1 EXCEPT !.calls = @ + 1, !.tx = @ \cup {tableBatch}]

\* Promise.allSettled over one removeAppPointer per collaborator: every removal is
\* issued and a failed one (the pointer row is absent) is ignored.
removeAllCollaboratorsAppPointers(c, accountId, appId) ==
  LET c1 == getApp(c, accountId, appId)
      collaboratorMap == getAppResult(c, accountId, appId).collaborators
      pointerKeys == {<<getAccountPartitionKey(collaboratorMap[e].accountId),
                        getHierarchicalAccountRowKey(collaboratorMap[e].accountId, appId)>> :
                        e \in DOMAIN collaboratorMap}
  IN IF Failed(c1) THEN c1
     ELSE [c1 EXCEPT !.calls = @ + Cardinality(DOMAIN collaboratorMap),
                     !.t = Without(@, pointerKeys)]

\* The app Pointer rows of the collaborators of an app.
appPointerKeys(collaboratorMap, appId) ==
  {<<getAccountPartitionKey(collaboratorMap[e].accountId),
     getHierarchicalAccountRowKey(collaboratorMap[e].accountId, appId)>> :
     e \in DOMAIN collaboratorMap}

anySettled(pending) == TRUE

\* await Promise.allSettled(removalPromises) resumes when no removal is pending.
allSettled(pending) == pending = {}

allRejection(failed) == IF failed = {} THEN NoErr ELSE azureError("ResourceNotFound")

\* Promise.allSettled never rejects, whichever removals were rejected.
allSettledRejection(failed) == NoErr

removeApp(c, accountId, appId) ==
  Handle(cleanUpByAppHierarchy(removeAllCollaboratorsAppPointers(c, accountId, appId),
                               appId, Undefined))

(***************************************************************************)
(* Deployments.                                                            *)
(***************************************************************************)
\* if (!deploymentId) throw new Error("No deployment id"), then the try block.
updateDeployment(c, accountId, appId, deployment) ==
  IF deployment.id \in {<<>>, Undefined, Null} THEN Throw(c, plainError)
  ELSE Handle(mergeByAppHierarchy(awaitSetup(c), flattenDeployment(deployment),
                                  appId, deployment.id))

removeDeployment(c, accountId, appId, deploymentId) ==
  Handle(deleteHistoryBlob(cleanUpByAppHierarchy(awaitSetup(c), appId, deploymentId),
                           deploymentId))

addDeployment(c, id, accountId, appId, deployment) ==
  LET flatDeployment == Merge(flattenDeployment(deployment), [id |-> id])
      c1 == insertByAppHierarchy(c, flatDeployment, appId, id)
      c2 == uploadToHistoryBlob(c1, id, Stringify(<<>>))
      c3 == Validate(c2, <<deployment.key>>)
      pointer == [appId |-> appId, deploymentId |-> id]
      c4 == createEntity(c3, getShortcutDeploymentKeyPartitionKey(deployment.key),
                         getShortcutDeploymentKeyRowKey, pointer)
  IN Handle(c4)

(***************************************************************************)
(* Access keys.                                                            *)
(***************************************************************************)
insertAccessKey(c, accessKey, accountId) ==
  LET hashed == [accessKey EXCEPT !.name = hashWithSHA256(@)]
      c1 == Validate(Validate(c, <<accountId>>), <<accountId, accessKey.id>>)
  IN createEntity(c1, getAccountPartitionKey(accountId),
                  getAccessKeyRowKey(accountId, accessKey.id), hashed)

addAccessKey(c, id, accountId, accessKeyArg) ==
  LET accessKey == Merge(accessKeyArg, [id |-> id])
      c1 == Validate(c, <<accessKey.name>>)
      accessKeyPointer == [accountId |-> accountId, expires |-> accessKey.expires]
      c2 == createEntity(c1, getShortcutAccessKeyPartitionKey(accessKey.name, TRUE), <<>>,
                         accessKeyPointer)
  IN Handle(insertAccessKey(c2, accessKey, accountId))

getAccessKey(c, accountId, accessKeyId) ==
  Handle(retrieveByKey(awaitSetup(Validate(c, <<accountId, accessKeyId>>)),
                       getAccountPartitionKey(accountId),
                       getAccessKeyRowKey(accountId, accessKeyId)))

getAccessKeyResult(c, accountId, accessKeyId) ==
  Row(c, getAccountPartitionKey(accountId), getAccessKeyRowKey(accountId, accessKeyId))

\* Promise.all over the two deleteEntity calls: both are issued, and the first
\* rejection is the outcome.
removeAccessKey(c, accountId, accessKeyId) ==
  LET c1 == getAccessKey(awaitSetup(c), accountId, accessKeyId)
      accessKey == getAccessKeyResult(c, accountId, accessKeyId)
      rowAddress == <<getAccountPartitionKey(accountId),
                      getAccessKeyRowKey(accountId, accessKeyId)>>
      shortcutAddress == <<getShortcutAccessKeyPartitionKey(accessKey.name, FALSE), <<>>>>
      c2 == Validate(c1, <<accessKey.name>>)
  IN Handle(IF Failed(c2) THEN c2
            ELSE [c2 EXCEPT !.calls = @ + 2,
                            !.t = Without(@, {rowAddress, shortcutAddress}),
                            !.err = IF {rowAddress, shortcutAddress} \subseteq DOMAIN c2.t
                                    THEN NoErr ELSE azureError("ResourceNotFound")])

\* A Pointer that carries the account id only.
accessKeyPointerWithoutExpires(accountId, accessKey) == [accountId |-> accountId]

newAccessKeyPointer(accountId, accessKey) ==
  [accountId |-> accountId, expires |-> accessKey.expires]

\* The two guards and the keys come before the try block.
updateAccessKey(c, accountId, accessKey) ==
  LET c1 == awaitSetup(Validate(c, <<accountId, accessKey.id>>))
      c2 == updateEntity(c1, getAccountPartitionKey(accountId),
                         getAccessKeyRowKey(accountId, accessKey.id), accessKey)
      c3 == updateEntity(Validate(c2, <<accessKey.name>>),
                         getShortcutAccessKeyPartitionKey(accessKey.name, FALSE), <<>>,
                         newAccessKeyPointer(accountId, accessKey))
  IN IF accessKey.id \in {<<>>, Undefined, Null} THEN Throw(c, plainError)
     ELSE Handle(c3)

isExpiredReversed(time, expires) == time <= expires

\* new Date().getTime() >= accountIdObject.expires
isExpired(time, expires) == time >= expires

getAccountIdFromAccessKey(c, accessKey, time) ==
  LET partitionKey == getShortcutAccessKeyPartitionKey(accessKey, TRUE)
      c1 == retrieveByKey(awaitSetup(Validate(c, <<accessKey>>)), partitionKey, <<>>)
      accountIdObject == Row(c, partitionKey, <<>>)
  IN Handle(IF Failed(c1) THEN c1
            ELSE IF isExpired(time, accountIdObject.expires)
            THEN Throw(c1, storageError("Expired"))
            ELSE c1)

getAccountIdFromAccessKeyResult(c, accessKey) ==
  Row(c, getShortcutAccessKeyPartitionKey(accessKey, TRUE), <<>>).accountId

\* The most entities the table service puts in one page of a query's result
\* (1000 in the service, scaled to the size of the stores explored here).
PageSize == 2

\* listEntities(options).byPage().next(): the first page of the result, the
\* rows of one partition in the order of their row keys.
firstPage(found) ==
  {k \in found : Cardinality({j \in found : StrLess(j[2], k[2])}) < PageSize}

getAccessKeysEntities(c, accountId) ==
  LET searchKey == getAccessKeyRowKey(accountId, Undefined)
  IN firstPage(Selected(c.t, getAccountPartitionKey(accountId),
                        getHierarchicalAccountRowKey(accountId, Undefined),
                        searchKey, FALSE, searchKey \o S_tilde))

\* The operation has no try block: neither the setup's error nor the client's
\* passes through azureErrorHandler.
getAccessKeys(c, accountId) ==
  LET c1 == listEntities(awaitSetup(Validate(c, <<accountId>>)))
  IN IF Failed(c1) THEN c1
     ELSE IF getAccessKeysEntities(c1, accountId) = {}
     THEN Throw(c1, storageError("NotFound"))
     ELSE c1

getAccessKeysResult(c, accountId) ==
  {c.t[k].id : k \in {e \in getAccessKeysEntities(c, accountId) :
                        e[2] # getHierarchicalAccountRowKey(accountId, Undefined)}}

(***************************************************************************)
(* Package history.                                                        *)
(***************************************************************************)
MAX_PACKAGE_HISTORY_LENGTH == 50

\* "v" + (parseInt(lastLabel.substring(1)) + 1); a label "v<n>" is kept as n.
\* The decimal digits of a natural number (the string JavaScript makes of it).
RECURSIVE toDecimal(_)
toDecimal(n) == IF n < 10 THEN <<48 + n>> ELSE toDecimal(n \div 10) \o <<48 + (n % 10)>>

RECURSIVE digitsValue(_)
digitsValue(s) ==
  IF s = <<>> THEN 0 ELSE digitsValue(SubSeq(s, 1, Len(s) - 1)) * 10 + (s[Len(s)] - 48)

\* parseInt: the number the leading decimal digits of the string denote, and
\* NaN (no number) when the string does not start with a digit.
parseInt(s) ==
  LET isDigit(i) == s[i] >= 48 /\ s[i] <= 57
      leading == {i \in 0..Len(s) : \A j \in 1..i : isDigit(j)}
      k == CHOOSE i \in leading : \A j \in leading : j <= i
  IN IF k = 0 THEN {} ELSE {digitsValue(SubSeq(s, 1, k))}

S_v == <<118>>                              \* "v"
S_NaN == <<78, 97, 78>>                     \* "NaN"

\* "v" + n
Label(n) == S_v \o toDecimal(n)

\* A label that counts the entries of the history.
getNextLabelFromLength(packageHistory) == Label(Len(packageHistory) + 1)

getNextLabel(packageHistory) ==
  IF Len(packageHistory) = 0 THEN Label(1)
  ELSE LET lastLabel == packageHistory[Len(packageHistory)].label
           lastVersion == parseInt(SubSeq(lastLabel, 2, Len(lastLabel)))
       IN IF lastVersion = {} THEN S_v \o S_NaN
          ELSE Label((CHOOSE n \in lastVersion : TRUE) + 1)

\* The history commitPackage uploads: the last package's rollout is cleared, the
\* new package is pushed and the oldest entries beyond the maximum are spliced out.
appendedKeepingRollout(packageHistory, appPackage) ==
  LET pushed == Append(packageHistory, appPackage)
  IN IF Len(pushed) > MAX_PACKAGE_HISTORY_LENGTH
     THEN SubSeq(pushed, Len(pushed) - MAX_PACKAGE_HISTORY_LENGTH + 1, Len(pushed))
     ELSE pushed

appended(packageHistory, appPackage) ==
  LET n == Len(packageHistory)
      cleared == [i \in 1..n |->
                    IF i = n THEN [packageHistory[i] EXCEPT !.rollout = "null"]
                    ELSE packageHistory[i]]
      pushed == Append(cleared, appPackage)
  IN IF Len(pushed) > MAX_PACKAGE_HISTORY_LENGTH
     THEN SubSeq(pushed, Len(pushed) - MAX_PACKAGE_HISTORY_LENGTH + 1, Len(pushed))
     ELSE pushed

\* The package commitPackage stores and returns: labelled and signed.
committedPackage(c, accountId, deploymentId, appPackage) ==
  Merge(appPackage, [label |-> getNextLabel(Parse(c.b[deploymentId])),
                     releasedBy |-> getAccountResult(c, accountId).email])

\* if (!deploymentId) throw new Error("No deployment id") stands before the try
\* block: the error is thrown as it is.
commitPackage(c, accountId, appId, deploymentId, appPackage) ==
  LET c1 == getPackageHistoryFromBlob(awaitSetup(c), deploymentId)
      c2 == getAccount(c1, accountId)
      packageHistory == Parse(c.b[deploymentId])
      labelled == committedPackage(c, accountId, deploymentId, appPackage)
      flatPackage == [id |-> deploymentId, package |-> Stringify(labelled)]
      c3 == IF Failed(c2) THEN c2
            ELSE mergeByAppHierarchy(c2, flatPackage, appId, deploymentId)
      c4 == uploadToHistoryBlob(c3, deploymentId, Stringify(appended(packageHistory, labelled)))
  IN IF deploymentId \in {<<>>, Undefined, Null} THEN Throw(c, plainError)
     ELSE Handle(c4)

clearPackageHistory(c, accountId, appId, deploymentId) ==
  LET c1 == retrieveByAppHierarchy(c, appId, deploymentId)
      flatDeployment == retrieveByAppHierarchyResult(c, appId, deploymentId)
      withoutPackage == [p \in DOMAIN flatDeployment \ {"package"} |-> flatDeployment[p]]
      c2 == IF Failed(c1) THEN c1
            ELSE updateByAppHierarchy(c1, withoutPackage, appId, deploymentId)
  IN Handle(uploadToHistoryBlob(c2, deploymentId, Stringify(<<>>)))

updatePackageHistory(c, accountId, appId, deploymentId, history) ==
  IF Len(history) = 0 THEN Throw(c, storageError("Invalid"))
  ELSE LET flatDeployment == [id |-> deploymentId, package |-> Stringify(history[Len(history)])]
           c1 == mergeByAppHierarchy(c, flatDeployment, appId, deploymentId)
       IN Handle(uploadToHistoryBlob(c1, deploymentId, Stringify(history)))

getPackageHistory(c, accountId, appId, deploymentId) ==
  Handle(getPackageHistoryFromBlob(c, deploymentId))

\* The keys are built before the try block.
getDeploymentInfo(c, deploymentKey) ==
  Handle(retrieveByKey(awaitSetup(Validate(c, <<deploymentKey>>)),
                       getShortcutDeploymentKeyPartitionKey(deploymentKey),
                       getShortcutDeploymentKeyRowKey))

getDeploymentInfoResult(c, deploymentKey) ==
  LET pointer == Row(c, getShortcutDeploymentKeyPartitionKey(deploymentKey),
                     getShortcutDeploymentKeyRowKey)
  IN [appId |-> pointer.appId, deploymentId |-> pointer.deploymentId]

getPackageHistoryFromDeploymentKey(c, deploymentKey) ==
  LET c1 == retrieveByKey(awaitSetup(Validate(c, <<deploymentKey>>)),
                          getShortcutDeploymentKeyPartitionKey(deploymentKey),
                          getShortcutDeploymentKeyRowKey)
  IN Handle(IF Failed(c1) THEN c1
            ELSE getPackageHistoryFromBlob(
                   c1, getDeploymentInfoResult(c, deploymentKey).deploymentId))

(***************************************************************************)
(* The public operations as actions.  Inputs are drawn from small sets:    *)
(* the ids and emails the store holds, an id that was never issued, and    *)
(* identifiers that contain the delimiter or the marker.                   *)
(***************************************************************************)
Emails == {<<97>>, <<65>>, <<98>>, <<99>>}  \* "a", "A", "b", "c"
NoSuchEmail == <<122>>                      \* "z"
NoSuchId == <<57, 57>>                      \* "99"
BadId == <<49, 32, 49>>                     \* "1 1"
AppName == <<110>>                          \* "n"
DeploymentKeys == {<<107>>, <<107, 42>>}    \* "k", "k*"

AccountKeys(t) == {k \in DOMAIN t : k[2] = <<>> /\ "email" \in DOMAIN t[k]}
AppKeys(t) == {k \in DOMAIN t : "collaborators" \in DOMAIN t[k]}
DeploymentRowKeys(t) == {k \in DOMAIN t : isDeployment(k[2])}

AccountIds == {table[k].id : k \in AccountKeys(table)}
AppIds == {table[k].id : k \in AppKeys(table)}
DeploymentIds == {table[k].id : k \in DeploymentRowKeys(table)}

Outcome(c) == IF ~ Failed(c) THEN "ok"
              ELSE IF c.err.src = "storage" THEN c.err.code ELSE "Unclassified"

\* The operation has run to c: the stores are as it left them.
Returned(c, op, ids, ret) ==
  /\ setupSettled
  /\ table' = c.t
  /\ blobs' = c.b
  /\ pendingTx' = c.tx
  /\ last' = [op |-> op, ids |-> ids, at |-> now, status |-> Outcome(c), calls |-> c.calls,
              ret |-> IF Failed(c) THEN <<>> ELSE ret]
  /\ UNCHANGED <<backend, attempts, handles>>

\* An operation that is not followed step by step returns.
Done(c, op, ids, ret) == Returned(c, op, ids, ret) /\ UNCHANGED <<removal, commits>>

\* An id is issued by every operation that generates one; the model counts those
\* that were written to a store.
Issued(c) == nextId' = IF c.t # table \/ c.b # blobs THEN nextId + 1 ELSE nextId

AddAccount ==
  /\ Cardinality(AccountKeys(table)) < MaxAccounts
  /\ \E email \in Emails \cup {BadId} :
       LET c == addAccount(Begin, GenId(nextId + 1), email)
       IN Done(c, "addAccount", <<email>>, GenId(nextId + 1)) /\ Issued(c)
  /\ UNCHANGED <<removed, now>>

GetAccount ==
  /\ \E accountId \in AccountIds \cup {NoSuchId} :
       LET c == getAccount(Begin, accountId)
       IN Done(c, "getAccount", <<accountId>>, getAccountResult(Start, accountId))
  /\ UNCHANGED <<removed, nextId, now>>

GetAccountByEmail ==
  /\ \E email \in Emails :
       LET c == getAccountByEmail(Begin, email)
       IN Done(c, "getAccountByEmail", <<email>>, getAccountByEmailResult(Start, email))
  /\ UNCHANGED <<removed, nextId, now>>

\* The specifications follow one app: addApp runs while none has been created.
AddApp ==
  /\ AppIds \cup removed = {}
  /\ \E accountId \in AccountIds :
       LET c == addApp(Start, GenId(nextId + 1), accountId, AppName)
       IN Done(c, "addApp", <<accountId>>, GenId(nextId + 1)) /\ Issued(c)
  /\ UNCHANGED <<removed, now>>

AddCollaborator ==
  /\ \E accountId \in AccountIds, appId \in AppIds \cup {NoSuchId},
        email \in Emails \cup {NoSuchEmail}, firstIsA \in BOOLEAN :
       Done(addCollaborator(Start, accountId, appId, email, firstIsA), "addCollaborator",
            <<appId, email>>, <<>>)
  /\ UNCHANGED <<removed, nextId, now>>

RemoveCollaborator ==
  /\ \E accountId \in AccountIds, appId \in AppIds, email \in Emails :
       Done(removeCollaborator(Start, accountId, appId, email), "removeCollaborator",
            <<appId, email>>, <<>>)
  /\ UNCHANGED <<removed, nextId, now>>

TransferApp ==
  /\ \E accountId \in AccountIds \cup {NoSuchId}, appId \in AppIds, email \in Emails,
        firstIsA \in BOOLEAN, answer \in BOOLEAN :
       Done(transferApp(Start, accountId, appId, email, firstIsA, answer), "transferApp",
            <<appId, email>>, accountId)
  /\ UNCHANGED <<removed, nextId, now>>

IssuedIds == {GenId(n) : n \in 1..nextId}

RemoveApp ==
  /\ \E accountId \in AccountIds, appId \in AppIds \cup {NoSuchId} :
       LET c == removeApp(Start, accountId, appId)
       IN /\ Done(c, "removeApp", <<appId>>, <<>>)
          /\ removed' = IF Failed(c) THEN removed ELSE removed \cup {appId}
  /\ UNCHANGED <<nextId, now>>

\* The service applies a batch that was submitted and not awaited: all of its
\* deletes, or none when one of its rows is gone.
(***************************************************************************)
(* removeApp followed step by step: getApp and the removals it issues, the *)
(* answer of the service to each removal, and the cascade that follows     *)
(* Promise.allSettled.                                                     *)
(***************************************************************************)
RemoveAppStarts ==
  /\ setupSettled
  /\ removal.phase # "removing"
  /\ \E accountId \in AccountIds, appId \in AppIds \cup {NoSuchId} :
       LET c1 == getApp(Start, accountId, appId)
           collaboratorMap == getAppResult(Start, accountId, appId).collaborators
           keys == appPointerKeys(collaboratorMap, appId)
       IN IF Failed(c1)
          THEN Returned(Handle(c1), "removeApp", <<appId>>, <<>>) /\ UNCHANGED removal
          ELSE /\ removal' = [phase |-> "removing", accountId |-> accountId, appId |-> appId,
                              calls |-> c1.calls + Cardinality(DOMAIN collaboratorMap),
                              issued |-> keys, pending |-> keys, failed |-> {}]
               /\ UNCHANGED <<table, blobs, pendingTx, last, backend, attempts, handles>>
  /\ UNCHANGED <<removed, nextId, now, commits>>

\* The service answers one deleteEntity of removeAppPointer: it rejects when
\* the row is absent or on a fault.
PointerRemovalSettles ==
  /\ \E k \in removal.pending, fault \in BOOLEAN :
       LET c == IF fault THEN Throw(Begin, faultError) ELSE deleteEntity(Begin, k[1], k[2])
       IN /\ table' = c.t
          /\ removal' = [removal EXCEPT !.pending = @ \ {k},
                                        !.failed = IF Failed(c) THEN @ \cup {k} ELSE @]
  /\ UNCHANGED <<blobs, pendingTx, removed, nextId, now, last, backend, attempts, handles,
                 commits>>

\* removeAllCollaboratorsAppPointers resumes and returns; cleanUpByAppHierarchy
\* scans the partition and hands over the delete batch; removeApp returns.
RemoveAppCascades ==
  /\ removal.phase = "removing"
  /\ allSettled(removal.pending)
  /\ LET c0 == [Begin EXCEPT !.calls = removal.calls,
                             !.err = allSettledRejection(removal.failed)]
         c == Handle(cleanUpByAppHierarchy(c0, removal.appId, Undefined))
     IN /\ Returned(c, "removeApp", <<removal.appId>>, <<>>)
        /\ removal' = [removal EXCEPT !.phase = "done"]
        /\ removed' = IF Failed(c) THEN removed ELSE removed \cup {removal.appId}
  /\ UNCHANGED <<nextId, now, commits>>

TransactionSettles ==
  /\ \E tableBatch \in pendingTx :
       /\ table' = IF tableBatch \subseteq DOMAIN table THEN Without(table, tableBatch)
                   ELSE table
       /\ pendingTx' = pendingTx \ {tableBatch}
  /\ last' = [op |-> "submitTransaction", ids |-> <<>>, at |-> now, status |-> "ok",
              calls |-> 0, ret |-> <<>>]
  /\ UNCHANGED <<blobs, removed, nextId, now, backend, attempts, handles, removal, commits>>

GetApp ==
  /\ \E accountId \in AccountIds, appId \in AppIds \cup removed \cup {NoSuchId} :
       Done(getApp(Start, accountId, appId), "getApp", <<appId>>, <<>>)
  /\ UNCHANGED <<removed, nextId, now>>

GetApps ==
  /\ \E accountId \in AccountIds \cup {NoSuchId} :
       Done(getApps(Start, accountId), "getApps", <<accountId>>,
            {a.id : a \in getAppsResult(Start, accountId)})
  /\ UNCHANGED <<removed, nextId, now>>

AddDeployment ==
  /\ Cardinality(DeploymentRowKeys(table)) < MaxDeployments
  /\ \E accountId \in AccountIds, appId \in AppIds \cup {NoSuchId}, key \in DeploymentKeys :
       LET c == addDeployment(Start, GenId(nextId + 1), accountId, appId,
                              [name |-> <<100>>, key |-> key])
       IN Done(c, "addDeployment", <<appId, key>>, GenId(nextId + 1)) /\ Issued(c)
  /\ UNCHANGED <<removed, now>>

GetDeployment ==
  /\ \E accountId \in AccountIds, appId \in AppIds \cup removed,
        deploymentId \in IssuedIds :
       Done(getDeployment(Start, accountId, appId, deploymentId), "getDeployment",
            <<appId, deploymentId>>,
            getDeploymentResult(Start, accountId, appId, deploymentId).package)
  /\ UNCHANGED <<removed, nextId, now>>

\* The apps a caller hands to updateApp: as getApp returned them (the caller's
\* entry marked), with another map, or without one.
OtherName == <<109>>                       \* "m"
CallerMaps ==
  {EmptyMap,
   [e \in {<<98>>} |-> [accountId |-> GenId(2), permission |-> "Owner",
                        isCurrentAccount |-> TRUE]]}
CallerApps(ids) ==
  {[id |-> id, name |-> name] : id \in ids, name \in {AppName, OtherName}}
  \cup {[id |-> id, name |-> name, collaborators |-> collaborators] :
          id \in ids, name \in {AppName, OtherName}, collaborators \in CallerMaps}

UpdateApp ==
  /\ \E accountId \in AccountIds, app \in CallerApps(AppIds \cup {NoSuchId, <<>>}) :
       Done(updateApp(Begin, accountId, app), "updateApp", <<app.id>>, <<>>)
  /\ UNCHANGED <<removed, nextId, now>>

\* The deployments a caller hands to updateDeployment, with or without a package.
CallerPackage == [label |-> <<118, 57>>, rollout |-> "50", releasedBy |-> <<98>>]
CallerDeployments(ids) ==
  {[id |-> id, name |-> name] : id \in ids, name \in {<<100>>, <<101>>}}
  \cup {[id |-> id, name |-> name, package |-> package] :
          id \in ids, name \in {<<100>>, <<101>>}, package \in {NullPackage, CallerPackage}}

UpdateDeployment ==
  /\ \E accountId \in AccountIds, appId \in AppIds \cup {NoSuchId},
        deployment \in CallerDeployments(DeploymentIds \cup {NoSuchId, <<>>}) :
       Done(updateDeployment(Begin, accountId, appId, deployment), "updateDeployment",
            <<appId, deployment.id>>, <<>>)
  /\ UNCHANGED <<removed, nextId, now>>

GetDeploymentInfo ==
  /\ \E deploymentKey \in DeploymentKeys :
       Done(getDeploymentInfo(Begin, deploymentKey), "getDeploymentInfo", <<deploymentKey>>,
            getDeploymentInfoResult(Begin, deploymentKey))
  /\ UNCHANGED <<removed, nextId, now>>

GetPackageHistoryFromDeploymentKey ==
  /\ \E deploymentKey \in DeploymentKeys :
       Done(getPackageHistoryFromDeploymentKey(Begin, deploymentKey),
            "getPackageHistoryFromDeploymentKey", <<deploymentKey>>, <<>>)
  /\ UNCHANGED <<removed, nextId, now>>

PrefixId == <<48>>                         \* "0", a prefix of every issued id

RemoveDeployment ==
  /\ \E accountId \in AccountIds, appId \in AppIds \cup {NoSuchId},
        deploymentId \in DeploymentIds \cup {NoSuchId, PrefixId} :
       Done(removeDeployment(Begin, accountId, appId, deploymentId), "removeDeployment",
            <<appId, deploymentId>>, <<>>)
  /\ UNCHANGED <<removed, nextId, now>>

GetDeployments ==
  /\ \E accountId \in AccountIds, appId \in AppIds \cup removed \cup {NoSuchId} :
       Done(getDeployments(Start, accountId, appId), "getDeployments", <<appId>>,
            {d.id : d \in getDeploymentsResult(Start, accountId, appId)})
  /\ UNCHANGED <<removed, nextId, now>>

AccessKeyNames == {<<120>>, <<121>>}        \* "x", "y"
AccessKeyPointerKeys(t) == {k \in DOMAIN t : k[2] = <<>> /\ "expires" \in DOMAIN t[k]}

AddAccessKey ==
  /\ Cardinality(AccessKeyPointerKeys(table)) < MaxAccessKeys
  /\ \E accountId \in AccountIds \cup {BadId}, name \in AccessKeyNames, expires \in 1..MaxTime :
       LET c == addAccessKey(Start, GenId(nextId + 1), accountId,
                             [name |-> name, expires |-> expires])
       IN Done(c, "addAccessKey", <<accountId, name>>, GenId(nextId + 1)) /\ Issued(c)
  /\ UNCHANGED <<removed, now>>

GetAccountIdFromAccessKey ==
  /\ \E accessKey \in AccessKeyNames :
       Done(getAccountIdFromAccessKey(Begin, accessKey, now), "getAccountIdFromAccessKey",
            <<accessKey>>, getAccountIdFromAccessKeyResult(Start, accessKey))
  /\ UNCHANGED <<removed, nextId, now>>

\* The ids of the access-key rows of an account.
AccessKeyIds(accountId) ==
  {table[k].id : k \in {r \in DOMAIN table : /\ r[1] = getAccountPartitionKey(accountId)
                                             /\ r[2] # <<>>
                                             /\ "expires" \in DOMAIN table[r]}}

\* The caller names the key by its id; the name it was created under is kept
\* with the outcome.
RemoveAccessKey ==
  /\ \E accountId \in AccountIds, accessKeyId \in IssuedIds, name \in AccessKeyNames :
       /\ accessKeyId \in AccessKeyIds(accountId) =>
            getAccessKeyResult(Begin, accountId, accessKeyId).name = hashWithSHA256(name)
       /\ Done(removeAccessKey(Begin, accountId, accessKeyId), "removeAccessKey",
               <<accountId, accessKeyId, name>>, <<>>)
  /\ UNCHANGED <<removed, nextId, now>>

\* The caller hands back the key getAccessKey returned, with another expiry.
UpdateAccessKey ==
  /\ \E accountId \in AccountIds, accessKeyId \in IssuedIds, expires \in 1..MaxTime :
       /\ accessKeyId \in AccessKeyIds(accountId)
       /\ Done(updateAccessKey(Begin, accountId,
                               [getAccessKeyResult(Begin, accountId, accessKeyId)
                                  EXCEPT !.expires = expires]),
               "updateAccessKey", <<accountId, accessKeyId>>, <<>>)
  /\ UNCHANGED <<removed, nextId, now>>

GetAccessKeys ==
  /\ \E accountId \in AccountIds \cup {NoSuchId} :
       Done(getAccessKeys(Begin, accountId), "getAccessKeys", <<accountId>>,
            getAccessKeysResult(Begin, accountId))
  /\ UNCHANGED <<removed, nextId, now>>

\* The clock advances.
Tick ==
  /\ now < MaxTime
  /\ now' = now + 1
  /\ UNCHANGED <<table, blobs, pendingTx, removed, nextId, last, backend, attempts, handles, removal, commits>>

\* A history a caller passes to updatePackageHistory: n packages labelled 1..n,
\* each with a rollout.
Canon(n) == [i \in 1..n |-> [label |-> Label(i), rollout |-> "25", releasedBy |-> <<97>>]]
Histories == {<<>>, Canon(1), Canon(MAX_PACKAGE_HISTORY_LENGTH),
              Canon(MAX_PACKAGE_HISTORY_LENGTH + 1)}

CommitPackage ==
  /\ \E accountId \in AccountIds \cup {BadId}, appId \in AppIds,
        deploymentId \in DeploymentIds \cup {NoSuchId, <<>>} :
       /\ deploymentId \in DOMAIN blobs =>
            \A n \in parseInt(Tail(getNextLabel(Parse(blobs[deploymentId])))) : n <= MaxLabel
       /\ Done(commitPackage(Begin, accountId, appId, deploymentId, [rollout |-> "25"]),
               "commitPackage", <<accountId, appId, deploymentId>>,
               committedPackage(Start, accountId, deploymentId, [rollout |-> "25"]))
  /\ UNCHANGED <<removed, nextId, now>>

ClearPackageHistory ==
  /\ \E accountId \in AccountIds, appId \in AppIds, deploymentId \in DeploymentIds :
       Done(clearPackageHistory(Start, accountId, appId, deploymentId),
            "clearPackageHistory", <<accountId, appId, deploymentId>>, <<>>)
  /\ UNCHANGED <<removed, nextId, now>>

UpdatePackageHistory ==
  /\ \E accountId \in AccountIds, appId \in AppIds \cup {NoSuchId},
        deploymentId \in DeploymentIds, history \in Histories :
       Done(updatePackageHistory(Start, accountId, appId, deploymentId, history),
            "updatePackageHistory", <<accountId, appId, deploymentId>>, <<>>)
  /\ UNCHANGED <<removed, nextId, now>>

GetPackageHistory ==
  /\ \E accountId \in AccountIds, deploymentId \in DeploymentIds \cup {NoSuchId} :
       Done(getPackageHistory(Start, accountId, <<>>, deploymentId), "getPackageHistory",
            <<accountId, <<>>, deploymentId>>, Len(Parse(blobs[deploymentId])))
  /\ UNCHANGED <<removed, nextId, now>>

(***************************************************************************)
(* The key encoder called on its own.                                      *)
(***************************************************************************)
MaxIdLen == 2

\* "0", "d", the delimiter and the leaf marker.
IdChars == {48, 100, 32, 42}

Identifiers == UNION {[1..n -> IdChars] : n \in 0..MaxIdLen}

\* Keys.getHierarchicalAppRowKey(appId, deploymentId?) called with the arguments
\* that wait in last.ids.
GetHierarchicalAppRowKey ==
  /\ last.op = "arguments"
  /\ Done(Validate(Begin, last.ids), "getHierarchicalAppRowKey", last.ids,
          getHierarchicalAppRowKey(last.ids[1], last.ids[2]))
  /\ UNCHANGED <<removed, nextId, now>>

(***************************************************************************)
(* Lifecycle actions.                                                      *)
(***************************************************************************)
\* reinitialize: return this.setup(accountName, accountKey); _setupPromise is
\* left as the constructor set it.
Reinitialize ==
  /\ Len(attempts) < MaxAttempts
  /\ \E credentials \in BOOLEAN : attempts' = Append(attempts, NewAttempt(credentials))
  /\ UNCHANGED <<table, blobs, pendingTx, removed, nextId, now, last, backend, handles, removal, commits>>

\* The service answers createTable or createContainer of an attempt.
CreateSettles ==
  /\ \E a \in DOMAIN attempts, r \in Resources, fault \in BOOLEAN :
       /\ attempts[a].creates[r] = "pending"
       /\ LET answer == createAnswer(r, backend[r], fault)
              after == afterCreate(attempts[a], r, answer)
          IN /\ attempts' = [attempts EXCEPT ![a] = after]
             /\ backend' = IF answer = NoErr /\ backend[r] = "absent"
                           THEN [backend EXCEPT ![r] = "empty"] ELSE backend
             /\ handles' = IF after.phase = "installed" /\ attempts[a].phase # "installed"
                           THEN install(handles, a) ELSE handles
  /\ UNCHANGED <<table, blobs, pendingTx, removed, nextId, now, last, removal, commits>>

\* The service answers the write of a health sentinel of an attempt.
WriteSettles ==
  /\ \E a \in DOMAIN attempts, r \in Resources, fault \in BOOLEAN :
       /\ attempts[a].writes[r] = "pending"
       /\ LET answer == writeAnswer(r, backend[r], fault)
              after == afterWrite(attempts[a], r, answer)
          IN /\ attempts' = [attempts EXCEPT ![a] = after]
             /\ backend' = IF answer = NoErr THEN [backend EXCEPT ![r] = "health"] ELSE backend
             /\ handles' = IF after.phase = "installed" /\ attempts[a].phase # "installed"
                           THEN install(handles, a) ELSE handles
  /\ UNCHANGED <<table, blobs, pendingTx, removed, nextId, now, last, removal, commits>>

\* checkHealth: this._setupPromise.then(three sentinel reads).catch(reject).
CheckHealth ==
  /\ setupSettled
  /\ \E answer \in (IF attempts[1].phase = "failed" THEN {attempts[1].error}
                     ELSE healthAnswers(backend)) :
       last' = [op |-> "checkHealth", ids |-> <<>>, at |-> now,
                status |-> Outcome([err |-> answer]),
                calls |-> IF attempts[1].phase = "failed" THEN 0 ELSE Cardinality(Resources),
                ret |-> <<>>]
  /\ UNCHANGED <<table, blobs, pendingTx, removed, nextId, now, backend, attempts, handles, removal, commits>>

(***************************************************************************)
(* commitPackage followed step by step, for callers whose calls overlap:   *)
(* the history is read and labelled, the row is merged, the blob is        *)
(* uploaded.  Nothing ties the three calls together (no ETag, no lease).   *)
(***************************************************************************)
MaxCommitters == 2
Committers == 1..MaxCommitters

IdleCommit == [phase |-> "idle", accountId |-> <<>>, appId |-> <<>>, deploymentId |-> <<>>,
               history |-> <<>>, package |-> NullPackage, calls |-> 0, overlaps |-> {}]
NoCommits == [p \in Committers |-> IdleCommit]

inFlight(p) == commits[p].phase \in {"read", "merged"}

\* The package caller p commits.
packageOf(p) == [rollout |-> "25", appVersion |-> toDecimal(p)]

\* await getPackageHistoryFromBlob, getNextLabel, await getAccount.
CommitReads ==
  /\ setupSettled
  /\ \E p \in Committers, accountId \in AccountIds, appId \in AppIds,
        deploymentId \in DeploymentIds :
       LET c1 == getAccount(getPackageHistoryFromBlob(Start, deploymentId), accountId)
       IN /\ commits[p].phase = "idle"
          /\ IF Failed(c1)
             THEN /\ Returned(Handle(c1), "commitPackage", <<accountId, appId, deploymentId>>, <<>>)
                  /\ commits' = [commits EXCEPT ![p].phase = "failed"]
             ELSE /\ commits' = [commits EXCEPT ![p] =
                        [phase |-> "read", accountId |-> accountId, appId |-> appId,
                         deploymentId |-> deploymentId,
                         history |-> Parse(blobs[deploymentId]),
                         package |-> committedPackage(Start, accountId, deploymentId,
                                                      packageOf(p)),
                         calls |-> c1.calls,
                         overlaps |-> {q \in Committers : inFlight(q)}]]
                  /\ UNCHANGED <<table, blobs, pendingTx, last, backend, attempts, handles>>
  /\ UNCHANGED <<removed, nextId, now, removal>>

\* await mergeByAppHierarchy(flatPackage, appId, deploymentId)
CommitMerges ==
  /\ \E p \in Committers :
       LET my == commits[p]
           flatPackage == [id |-> my.deploymentId, package |-> Stringify(my.package)]
           c == mergeByAppHierarchy([Begin EXCEPT !.calls = my.calls], flatPackage,
                                    my.appId, my.deploymentId)
       IN /\ my.phase = "read"
          /\ IF Failed(c)
             THEN /\ Returned(Handle(c), "commitPackage",
                              <<my.accountId, my.appId, my.deploymentId>>, <<>>)
                  /\ commits' = [commits EXCEPT ![p].phase = "failed"]
             ELSE /\ table' = c.t
                  /\ commits' = [commits EXCEPT ![p].phase = "merged", ![p].calls = c.calls]
                  /\ UNCHANGED <<blobs, pendingTx, last, backend, attempts, handles>>
  /\ UNCHANGED <<removed, nextId, now, removal>>

\* await uploadToHistoryBlob(deploymentId, JSON.stringify(packageHistory)); return.
CommitUploads ==
  /\ \E p \in Committers :
       LET my == commits[p]
           c == uploadToHistoryBlob([Begin EXCEPT !.calls = my.calls], my.deploymentId,
                                    Stringify(appended(my.history, my.package)))
       IN /\ my.phase = "merged"
          /\ Returned(Handle(c), "commitPackage",
                      <<my.accountId, my.appId, my.deploymentId>>, my.package)
          /\ commits' = [commits EXCEPT ![p].phase = IF Failed(c) THEN "failed" ELSE "done"]
  /\ UNCHANGED <<removed, nextId, now, removal>>

NoRemoval == [phase |-> "idle", accountId |-> <<>>, appId |-> <<>>, calls |-> 0,
              issued |-> {}, pending |-> {}, failed |-> {}]

\* The stores after a setup that found nothing and met no fault.
ReadyBackend == [r \in Resources |-> "health"]
ReadyAttempt == [phase |-> "installed", error |-> NoErr,
                 creates |-> [r \in Resources |-> "ok"], writes |-> [r \in Resources |-> "ok"]]

NoOp == [op |-> "none", ids |-> <<>>, at |-> 0, status |-> "ok", calls |-> 0, ret |-> <<>>]

EmptyRun == [t |-> [k \in {} |-> k], b |-> [k \in {} |-> k], tx |-> {}, calls |-> 0, err |-> NoErr,
             setup |-> NoErr]

InitFrom(c, ids) ==
  /\ backend = ReadyBackend
  /\ attempts = <<ReadyAttempt>>
  /\ handles = install(NoHandles, 1)
  /\ removal = NoRemoval
  /\ commits = NoCommits
  /\ table = c.t
  /\ blobs = c.b
  /\ pendingTx = {}
  /\ removed = {}
  /\ nextId = ids
  /\ now = 0
  /\ last = NoOp

(***************************************************************************)
(* SpecAccounts: account creation and lookup, from the empty store.        *)
(***************************************************************************)
InitAccounts == InitFrom(EmptyRun, 0)

NextAccounts ==
  \/ AddAccount
  \/ GetAccount
  \/ GetAccountByEmail

SpecAccounts == InitAccounts /\ [][NextAccounts]_vars

(***************************************************************************)
(* Spec: one app and its collaborators, from a store that holds the        *)
(* accounts "a", "b" and "c".                                              *)
(***************************************************************************)
OneAccount == addAccount(EmptyRun, GenId(1), <<97>>)
ThreeAccounts == addAccount(addAccount(OneAccount, GenId(2), <<98>>), GenId(3), <<99>>)

Init == InitFrom(ThreeAccounts, 3)

Next ==
  \/ AddApp
  \/ AddCollaborator
  \/ RemoveCollaborator
  \/ TransferApp

Spec == Init /\ [][Next]_vars

(***************************************************************************)
(* SpecCascade: apps, their deployments and their removal, from a store    *)
(* that holds one account.                                                 *)
(***************************************************************************)
InitCascade == InitFrom(OneAccount, 1)

NextCascade ==
  \/ AddApp
  \/ AddDeployment
  \/ RemoveApp
  \/ TransactionSettles
  \/ GetApp
  \/ GetApps
  \/ GetDeployment
  \/ GetDeployments

SpecCascade == InitCascade /\ [][NextCascade]_vars

(***************************************************************************)
(* SpecKeys: access keys and the clock, from a store that holds one        *)
(* account.                                                                *)
(***************************************************************************)
NextKeys ==
  \/ AddAccessKey
  \/ GetAccountIdFromAccessKey
  \/ GetAccessKeys
  \/ Tick

SpecKeys == InitCascade /\ [][NextKeys]_vars

(***************************************************************************)
(* SpecHistory: the package history of one deployment.                     *)
(***************************************************************************)
OneDeployment ==
  addDeployment(addApp(OneAccount, GenId(2), GenId(1), AppName),
                GenId(3), GenId(1), GenId(2), [name |-> <<100>>, key |-> <<107>>])

InitHistory == InitFrom(OneDeployment, 3)

NextHistory ==
  \/ CommitPackage
  \/ ClearPackageHistory
  \/ UpdatePackageHistory
  \/ GetPackageHistory
  \/ GetDeployment

SpecHistory == InitHistory /\ [][NextHistory]_vars

(***************************************************************************)
(* SpecEncode: the Keys functions applied to every pair of identifiers of  *)
(* at most MaxIdLen characters, the delimiter and the leaf marker among    *)
(* the characters.                                                         *)
(***************************************************************************)
InitEncode ==
  /\ backend = ReadyBackend
  /\ attempts = <<ReadyAttempt>>
  /\ handles = install(NoHandles, 1)
  /\ removal = NoRemoval
  /\ commits = NoCommits
  /\ table = EmptyRun.t
  /\ blobs = EmptyRun.b
  /\ pendingTx = {}
  /\ removed = {}
  /\ nextId = 0
  /\ now = 0
  /\ \E appId \in Identifiers, deploymentId \in Identifiers \cup {Undefined} :
       last = [NoOp EXCEPT !.op = "arguments", !.ids = <<appId, deploymentId>>]

NextEncode == GetHierarchicalAppRowKey

SpecEncode == InitEncode /\ [][NextEncode]_vars

(***************************************************************************)
(* SpecPointers: an app and its deployments added and removed in a store   *)
(* that holds one account and one access key, so that every kind of        *)
(* Pointer row (account id, app, deployment key, access key) occurs.       *)
(***************************************************************************)
OneKey == addAccessKey(OneAccount, GenId(2), GenId(1), [name |-> <<120>>, expires |-> 1])

InitPointers == InitFrom(OneKey, 2)

NextPointers ==
  \/ AddApp
  \/ AddDeployment
  \/ RemoveApp
  \/ TransactionSettles

SpecPointers == InitPointers /\ [][NextPointers]_vars

(***************************************************************************)
(* SpecSubtree: the cascades of removeDeployment and removeApp over two     *)
(* apps of one account, the first with two deployments and the second with *)
(* one.                                                                    *)
(***************************************************************************)
TwoApps == addApp(addApp(OneAccount, GenId(2), GenId(1), AppName), GenId(3), GenId(1), AppName)

ThreeDeployments ==
  addDeployment(
    addDeployment(
      addDeployment(TwoApps, GenId(4), GenId(1), GenId(2), [name |-> <<100>>, key |-> <<107>>]),
      GenId(5), GenId(1), GenId(2), [name |-> <<101>>, key |-> <<108>>]),
    GenId(6), GenId(1), GenId(3), [name |-> <<100>>, key |-> <<109>>])

InitSubtree == InitFrom(ThreeDeployments, 6)

NextSubtree ==
  \/ RemoveDeployment
  \/ RemoveApp
  \/ TransactionSettles

SpecSubtree == InitSubtree /\ [][NextSubtree]_vars

(***************************************************************************)
(* SpecUpdate: updateApp and updateDeployment on an app of three accounts  *)
(* whose deployment holds a released package.                              *)
(***************************************************************************)
Released ==
  commitPackage(
    addDeployment(addApp(ThreeAccounts, GenId(4), GenId(1), AppName),
                  GenId(5), GenId(1), GenId(4), [name |-> <<100>>, key |-> <<107>>]),
    GenId(1), GenId(4), GenId(5), [rollout |-> "25"])

InitUpdate == InitFrom(Released, 5)

NextUpdate ==
  \/ UpdateApp
  \/ UpdateDeployment
  \/ AddCollaborator
  \/ GetApp
  \/ GetDeployment

SpecUpdate == InitUpdate /\ [][NextUpdate]_vars

(***************************************************************************)
(* SpecShare: an app shared among three accounts, transferred and removed, *)
(* following the calls that succeed only.                                  *)
(***************************************************************************)
AddAppSucceeds == AddApp /\ last'.status = "ok"
AddCollaboratorSucceeds == AddCollaborator /\ last'.status = "ok"
RemoveCollaboratorSucceeds == RemoveCollaborator /\ last'.status = "ok"
TransferAppSucceeds == TransferApp /\ last'.status = "ok"
RemoveAppSucceeds == RemoveApp /\ last'.status = "ok"

NextShare ==
  \/ AddAppSucceeds
  \/ AddCollaboratorSucceeds
  \/ RemoveCollaboratorSucceeds
  \/ TransferAppSucceeds
  \/ RemoveAppSucceeds
  \/ TransactionSettles

SpecShare == Init /\ [][NextShare]_vars

(***************************************************************************)
(* SpecKeyPair: access keys of two accounts added, updated and removed,    *)
(* following the calls that succeed only.                                  *)
(***************************************************************************)
MaxIssued == 5

TwoAccounts == addAccount(OneAccount, GenId(2), <<98>>)

InitKeyPair == InitFrom(TwoAccounts, 2)

AddAccessKeySucceeds == nextId < MaxIssued /\ AddAccessKey /\ last'.status = "ok"
UpdateAccessKeySucceeds == UpdateAccessKey /\ last'.status = "ok"
RemoveAccessKeySucceeds == RemoveAccessKey /\ last'.status = "ok"

NextKeyPair ==
  \/ AddAccessKeySucceeds
  \/ UpdateAccessKeySucceeds
  \/ RemoveAccessKeySucceeds
  \/ GetAccountIdFromAccessKey

SpecKeyPair == InitKeyPair /\ [][NextKeyPair]_vars

(***************************************************************************)
(* SpecCommit: callers committing to one deployment, step by step, with    *)
(* the package and the history read back.                                  *)
(***************************************************************************)
NextCommit ==
  \/ CommitReads
  \/ CommitMerges
  \/ CommitUploads
  \/ GetDeployment
  \/ GetPackageHistory

SpecCommit == InitHistory /\ [][NextCommit]_vars

(***************************************************************************)
(* SpecReuse: a deployment removed, its key looked up and used again.      *)
(***************************************************************************)
AddDeploymentWhileIdsLast == nextId < MaxIssued /\ AddDeployment

NextReuse ==
  \/ AddDeploymentWhileIdsLast
  \/ RemoveDeployment
  \/ RemoveApp
  \/ TransactionSettles
  \/ GetDeploymentInfo
  \/ GetPackageHistoryFromDeploymentKey

SpecReuse == InitHistory /\ [][NextReuse]_vars

(***************************************************************************)
(* SpecDangling: the two apps of one account removed step by step, with    *)
(* deletions of app Pointers that fail, and the account's apps listed.     *)
(***************************************************************************)
InitDangling == InitFrom(TwoApps, 3)

NextDangling ==
  \/ RemoveAppStarts
  \/ PointerRemovalSettles
  \/ RemoveAppCascades
  \/ TransactionSettles
  \/ GetApps

SpecDangling == InitDangling /\ [][NextDangling]_vars

(***************************************************************************)
(* SpecRemove: removeApp step by step on an app that has an owner and two  *)
(* collaborators.                                                          *)
(***************************************************************************)
SharedApp ==
  addCollaborator(
    addCollaborator(addApp(ThreeAccounts, GenId(4), GenId(1), AppName),
                    GenId(1), GenId(4), <<98>>, TRUE),
    GenId(1), GenId(4), <<99>>, TRUE)

InitRemove == InitFrom(SharedApp, 4)

NextRemove ==
  \/ RemoveAppStarts
  \/ PointerRemovalSettles
  \/ RemoveAppCascades
  \/ TransactionSettles
  \/ GetApps

SpecRemove == InitRemove /\ [][NextRemove]_vars

(***************************************************************************)
(* SpecSetup: the constructor's setup and those of reinitialize against a  *)
(* storage account that may hold any part of what setup provisions, with   *)
(* checkHealth and getAccount as the operations that wait for it.          *)
(***************************************************************************)
SentinelStates == {"absent", "empty", "health", "other"}

InitSetup ==
  /\ backend \in [Resources -> SentinelStates]
  /\ \E credentials \in BOOLEAN : attempts = <<NewAttempt(credentials)>>
  /\ handles = NoHandles
  /\ removal = NoRemoval
  /\ commits = NoCommits
  /\ table = EmptyRun.t
  /\ blobs = EmptyRun.b
  /\ pendingTx = {}
  /\ removed = {}
  /\ nextId = 0
  /\ now = 0
  /\ last = NoOp

NextSetup ==
  \/ Reinitialize
  \/ CreateSettles
  \/ WriteSettles
  \/ CheckHealth
  \/ GetAccount

SpecSetup == InitSetup /\ [][NextSetup]_vars

(***************************************************************************)
(* SpecReinit: the constructor's setup, called with credentials, and those *)
(* of reinitialize, against a storage account that is either new or fully  *)
(* provisioned.                                                            *)
(***************************************************************************)
InitReinit ==
  /\ backend \in {[r \in Resources |-> "absent"], [r \in Resources |-> "health"]}
  /\ attempts = <<NewAttempt(TRUE)>>
  /\ handles = NoHandles
  /\ removal = NoRemoval
  /\ commits = NoCommits
  /\ table = EmptyRun.t
  /\ blobs = EmptyRun.b
  /\ pendingTx = {}
  /\ removed = {}
  /\ nextId = 0
  /\ now = 0
  /\ last = NoOp

NextReinit ==
  \/ Reinitialize
  \/ CreateSettles
  \/ WriteSettles
  \/ CheckHealth

SpecReinit == InitReinit /\ [][NextReinit]_vars

(***************************************************************************)
(* Claims.                                                                 *)
(***************************************************************************)
\* C1: an operation called with an identifier that contains the delimiter or the
\* leaf marker fails with Invalid and has issued no table or blob call.
C1_InvalidBeforeAnyCall ==
  (\E i \in 1..Len(last.ids) : ~ validateParameters(<<last.ids[i]>>)) =>
    (last.status = "Invalid" /\ last.calls = 0)

\* The emails of a collaborators map whose entry is Owner.
Owners(collaboratorsMap) ==
  {e \in DOMAIN collaboratorsMap : collaboratorsMap[e].permission = "Owner"}

\* C2: in every reachable state each stored app's collaborators map has exactly
\* one entry whose permission is Owner.
C2_ExactlyOneOwner ==
  \A k \in AppKeys(table) : Cardinality(Owners(Parse(table[k].collaborators))) = 1

\* C3: a successful transferApp requested by an owner A toward the email of B, a
\* non-owner collaborator, leaves A with Collaborator, B with Owner, every other
\* entry as it was, and exactly one Owner entry.
C3_TransferToCollaborator ==
  [][\A k \in AppKeys(table) :
       LET old == Parse(table[k].collaborators)
           new == Parse(table'[k].collaborators)
           A == getEmailForAccountId(old, last'.ret)
           B == getAccountByEmailResult(Start, last'.ids[2]).email
       IN (/\ last'.op = "transferApp"
           /\ last'.status = "ok"
           /\ last'.ids[1] = table[k].id
           /\ A # Null
           /\ isOwner(old, A)
           /\ B \in DOMAIN old
           /\ ~ isOwner(old, B))
          => (/\ DOMAIN new = DOMAIN old
              /\ new[A] = [old[A] EXCEPT !.permission = "Collaborator"]
              /\ new[B] = [old[B] EXCEPT !.permission = "Owner"]
              /\ \A e \in DOMAIN old \ {A, B} : new[e] = old[e]
              /\ Owners(new) = {B})]_vars

\* C4: a successful commitPackage on a deployment whose stored history has exactly
\* 50 entries stores 50 entries: the oldest is gone, the former entries 2..50 keep
\* their order, the former last has rollout null, every other survivor is as it
\* was, and the new package is last.
C4_CommitAtCapacity ==
  [][\A d \in DOMAIN blobs :
       LET old == Parse(blobs[d])
           new == Parse(blobs'[d])
           n == MAX_PACKAGE_HISTORY_LENGTH
       IN (/\ last'.op = "commitPackage"
           /\ last'.status = "ok"
           /\ last'.ids[3] = d
           /\ Len(old) = n)
          => (/\ Len(new) = n
              /\ \A i \in 1..n : new[i] # old[1]
              /\ \A i \in 1..(n - 2) : new[i] = old[i + 1]
              /\ new[n - 1] = [old[n] EXCEPT !.rollout = "null"]
              /\ new[n] = last'.ret)]_vars

\* C4 witness: commitPackage has just succeeded on a history of 50 entries labelled
\* 1..50 that carried rollouts: entry 1 is evicted and the stored history is 2..51.
C4_Witness ==
  /\ last.op = "commitPackage"
  /\ last.status = "ok"
  /\ LET h == Parse(blobs[last.ids[3]])
     IN /\ Len(h) = MAX_PACKAGE_HISTORY_LENGTH
        /\ h[1].label = Label(2)
        /\ h[1].rollout = "25"
        /\ h[MAX_PACKAGE_HISTORY_LENGTH - 1].rollout = "null"
        /\ h[MAX_PACKAGE_HISTORY_LENGTH].label = Label(MAX_PACKAGE_HISTORY_LENGTH + 1)

\* C5: the history stored for a deployment never has more than 50 entries.
C5_HistoryCapped ==
  \A d \in DOMAIN blobs : Len(Parse(blobs[d])) <= MAX_PACKAGE_HISTORY_LENGTH

\* C6: after a successful commitPackage, clearPackageHistory or updatePackageHistory
\* the deployment read back has the last element of the stored history as its
\* package, and a null package when the stored history is empty.
C6_PackageInSync ==
  (/\ last.op \in {"commitPackage", "clearPackageHistory", "updatePackageHistory"}
   /\ last.status = "ok")
  => LET h == Parse(blobs[last.ids[3]])
         deployment == getDeploymentResult(Start, last.ids[1], last.ids[2], last.ids[3])
     IN deployment.package = IF Len(h) = 0 THEN NullPackage ELSE h[Len(h)]

\* C7: once removeApp has returned successfully, a read of the app row or of one
\* of its deployment rows fails with NotFound.
C7_RemovedAppIsGone ==
  (/\ last.op \in {"getApp", "getDeployment", "getDeployments"}
   /\ last.ids[1] \in removed)
  => last.status = "NotFound"

\* C8: getDeployments for an app that has a row and no deployment returns the
\* empty sequence; getDeployments for an app id that has no row, and getApps for
\* an account id that has no row, fail with NotFound.
C8_EmptyParentOrMissingParent ==
  /\ (last.op = "getDeployments" /\ last.ids[1] \in AppIds
        /\ ~ \E k \in DeploymentRowKeys(table) : k[1] = getAppPartitionKey(last.ids[1]))
     => (last.status = "ok" /\ last.ret = {})
  /\ (last.op = "getDeployments" /\ last.ids[1] \notin AppIds) => last.status = "NotFound"
  /\ (last.op = "getApps" /\ last.ids[1] \notin AccountIds) => last.status = "NotFound"

\* C9: addAccount with an email that differs only by letter case from the email of
\* a stored account fails with AlreadyExists and leaves the table as it was: no
\* id-pointer row is created and the first account's record is unchanged.
C9_EmailUniqueIgnoringCase ==
  [][(/\ last'.op = "addAccount"
      /\ \E k \in AccountKeys(table) :
           /\ table[k].email # last'.ids[1]
           /\ ToLowerCase(table[k].email) = ToLowerCase(last'.ids[1]))
     => (last'.status = "AlreadyExists" /\ table' = table)]_vars

\* C9 witness: addAccount has just been rejected for an email that differs only by
\* case from a stored account's.
C9_Witness ==
  /\ last.op = "addAccount"
  /\ last.status = "AlreadyExists"
  /\ \E k \in AccountKeys(table) :
       /\ table[k].email # last.ids[1]
       /\ ToLowerCase(table[k].email) = ToLowerCase(last.ids[1])

\* The pointer row of an access key.
AccessKeyPointerKey(accessKey) == <<getShortcutAccessKeyPartitionKey(accessKey, TRUE), <<>>>>

\* C10: getAccountIdFromAccessKey for a key whose pointer expires strictly before
\* the current time fails with Expired, returns no account id and leaves the
\* pointer in the table; for a pointer that expires strictly after the current
\* time it returns the pointer's account id.
C10_ExpiryDecides ==
  [][\A accessKey \in AccessKeyNames :
       (/\ last'.op = "getAccountIdFromAccessKey"
        /\ now' = now
        /\ last'.ids[1] = accessKey
        /\ AccessKeyPointerKey(accessKey) \in DOMAIN table)
       => LET pointer == table[AccessKeyPointerKey(accessKey)]
          IN /\ pointer.expires < now =>
                  (/\ last'.status = "Expired"
                   /\ last'.ret = <<>>
                   /\ AccessKeyPointerKey(accessKey) \in DOMAIN table'
                   /\ table' = table)
             /\ pointer.expires > now =>
                  (last'.status = "ok" /\ last'.ret = pointer.accountId)]_vars

\* C10 witness: a resolution made strictly after the pointer's expiry has failed
\* with Expired and the pointer is still stored.
C10_Witness ==
  /\ last.op = "getAccountIdFromAccessKey"
  /\ last.status = "Expired"
  /\ AccessKeyPointerKey(last.ids[1]) \in DOMAIN table
  /\ table[AccessKeyPointerKey(last.ids[1])].expires < last.at


\* A step in which a public operation returns: only those change last.
Returns == last' # last

\* C11: while any setup (the constructor's or one started by reinitialize) is in
\* progress, no public operation issues a table or blob call.
C11_BlocksOnCurrentAttempt ==
  [][(Returns /\ last'.calls > 0) =>
       \A a \in DOMAIN attempts : ~ inProgress(attempts[a])]_vars

\* C12: the handles of an attempt are installed only when its three creations
\* and its three sentinel writes have all succeeded or answered already-exists.
C12_HandlesAfterEveryStep ==
  \A a \in DOMAIN attempts :
    attempts[a].phase = "installed" =>
      \A r \in Resources :
        /\ attempts[a].creates[r] \in {"ok", "ContainerAlreadyExists"}
        /\ attempts[a].writes[r] \in {"ok", "EntityAlreadyExists"}

\* C13: a setup that has credentials and meets no fault never ends Failed,
\* whatever part of the table, the containers and the sentinels exists already.
C13_SetupIdempotent ==
  \A a \in DOMAIN attempts :
    attempts[a].phase = "failed" => attempts[a].error \in {credentialsError, faultError}

\* C14: once a setup has failed, every public operation that returns afterwards
\* has failed without issuing a table or blob call.
C14_FailedIsTerminal ==
  [][(Returns /\ \E a \in DOMAIN attempts : attempts[a].phase = "failed") =>
       (last'.status # "ok" /\ last'.calls = 0)]_vars

\* C15: a checkHealth that reads the sentinels succeeds when all three hold
\* "health" and fails with ConnectionFailed when one is absent or differs.
C15_HealthCheckClassified ==
  [][(Returns /\ last'.op = "checkHealth" /\ last'.calls > 0) =>
       last'.status = (IF \A r \in Resources : backend[r] = "health"
                       THEN "ok" ELSE "ConnectionFailed")]_vars


\* The seven classifications of storage.ErrorCode.
ErrorCodes ==
  {"NotFound", "AlreadyExists", "TooLarge", "Expired", "ConnectionFailed", "Invalid", "Other"}

\* C18: every public operation succeeds or fails with an error that carries one
\* of the seven classifications.
C18_AlwaysClassified == last.status \in ErrorCodes \cup {"ok"}

\* C19: a public operation other than removeApp that fails leaves the table and
\* the blobs as they were before the call.
C19_AllOrNothing ==
  [][(Returns /\ last'.op \notin {"removeApp", "submitTransaction"} /\ last'.status # "ok") =>
       (table' = table /\ blobs' = blobs)]_vars

\* The row of the table a deployment-key pointer of this deployment is kept in.
deploymentKeyPointer(t, k) ==
  LET pointerKey == <<getShortcutDeploymentKeyPartitionKey(t[k].key), getShortcutDeploymentKeyRowKey>>
  IN pointerKey \in DOMAIN t /\ t[pointerKey].deploymentId = t[k].id

\* C20: when addDeployment fails after its first write, it leaves no deployment
\* row behind that its deployment-key Pointer does not lead to.
C20_NoRecordWithoutPointer ==
  [][(Returns /\ last'.op = "addDeployment" /\ last'.status # "ok") =>
       \A k \in DeploymentRowKeys(table') \ DeploymentRowKeys(table) :
         deploymentKeyPointer(table', k)]_vars


\* A step in which the removeApp that is followed step by step issues its cascade.
Cascades == removal.phase = "removing" /\ removal'.phase = "done"

\* C16: removeApp issues the scan and the delete batch over the app's partition
\* only when every removal of a collaborator's Pointer has settled.
C16_PointersBeforeCascade ==
  [][Cascades => (removal.pending = {} /\ removal.failed \subseteq removal.issued)]_vars

\* C16 witness: removeApp has returned after its cascade, having issued a
\* removal for each of the three collaborators.
C16_Witness ==
  /\ removal.phase = "done"
  /\ Cardinality(removal.issued) = 3
  /\ last.op = "removeApp"
  /\ pendingTx # {}

\* C17: when removals of the Pointer fail for some collaborators, the Pointers
\* of the others are removed, the delete batch over the app's rows is handed
\* over, and removeApp returns successfully.
C17_BestEffortCleanup ==
  [][Cascades =>
       /\ last'.op = "removeApp" /\ last'.status = "ok"
       /\ \A k \in removal.issued \ removal.failed : k \notin DOMAIN table'
       /\ LET tableBatch == cleanUpBatch(table, removal.appId, Undefined)
          IN tableBatch # {} => tableBatch \in pendingTx']_vars

\* C17 witness: removeApp has returned successfully although the removal failed
\* for some collaborators and succeeded for others, and the app's rows are gone.
C17_Witness ==
  /\ removal.phase = "done"
  /\ removal.failed # {}
  /\ removal.failed # removal.issued
  /\ last.op = "removeApp" /\ last.status = "ok"
  /\ removal.appId \in removed
  /\ AppKeys(table) = {}


\* C21: when the getApp or the getAccountByEmail nested in addCollaborator or
\* transferApp fails with a classified error, the outer operation fails with
\* that same classification, although the error passes a second handler.
C21_ClassifiedPassesThrough ==
  [][(Returns /\ last'.op \in {"addCollaborator", "transferApp"}) =>
       LET nested == {Outcome(getApp(Start, Undefined, last'.ids[1])),
                      Outcome(getAccountByEmail(Start, last'.ids[2]))} \ {"ok"}
       IN nested # {} => last'.status \in nested]_vars

\* C21 witness: addCollaborator on a stored app has failed with the NotFound
\* that getAccountByEmail raised for an unregistered email.
C21_Witness ==
  /\ last.op = "addCollaborator"
  /\ last.ids[1] \in AppIds
  /\ last.ids[2] = NoSuchEmail
  /\ last.status = "NotFound"
  /\ last.calls > 0


\* A Pointer row: {partitionKeyPointer, rowKeyPointer}.  The row key it stores
\* is empty when it leads to an account record.
storesAddress(row) == "partitionKeyPointer" \in DOMAIN row /\ "rowKeyPointer" \in DOMAIN row

\* A DeploymentKeyPointer row: {appId, deploymentId}.
isDeploymentKeyPointer(row) == "appId" \in DOMAIN row /\ "deploymentId" \in DOMAIN row

\* An AccessKeyPointer row: {accountId, expires}.
isAccessKeyPointer(row) == "accountId" \in DOMAIN row /\ "expires" \in DOMAIN row

\* The rows a Pointer row leads to: the address it stores, or the address of
\* the deployment it names.
pointerTargets(row) ==
  IF storesAddress(row) THEN {<<row.partitionKeyPointer, row.rowKeyPointer>>}
  ELSE IF isDeploymentKeyPointer(row)
  THEN {<<getAppPartitionKey(row.appId), getHierarchicalAppRowKey(row.appId, row.deploymentId)>>}
  ELSE {}

\* The row getAccount starts from for the account id an access-key Pointer holds.
accessKeyTargets(row) ==
  IF isAccessKeyPointer(row)
  THEN {<<getAccountAddress(row.accountId).partitionKeyPointer,
          getAccountAddress(row.accountId).rowKeyPointer>>}
  ELSE {}

canonical(row) ==
  ~ storesAddress(row) /\ ~ isDeploymentKeyPointer(row) /\ ~ isAccessKeyPointer(row)

\* C22 (as stated): the row any Pointer leads to, the access-key Pointer through
\* its account id included, is absent or is not a Pointer.
C22_NoPointerToPointer ==
  \A k \in DOMAIN table :
    \A target \in pointerTargets(table[k]) \cup accessKeyTargets(table[k]) :
      target \in DOMAIN table => canonical(table[target])

\* C22 (amended): the address stored in an account-id Pointer or an app Pointer,
\* and the deployment row a deployment-key Pointer names, is absent or is not a
\* Pointer.
C22_StoredAddressIsCanonical ==
  \A k \in DOMAIN table :
    \A target \in pointerTargets(table[k]) :
      target \in DOMAIN table => canonical(table[target])

\* C22 witness: an account-id Pointer, an app Pointer and a deployment-key
\* Pointer are stored, each with its target, beside an access-key Pointer.
C22_Witness ==
  /\ \E k \in DOMAIN table :
       /\ storesAddress(table[k]) /\ pointerTargets(table[k]) \subseteq AccountKeys(table)
  /\ \E k \in DOMAIN table :
       /\ storesAddress(table[k]) /\ pointerTargets(table[k]) \subseteq AppKeys(table)
  /\ \E k \in DOMAIN table :
       /\ isDeploymentKeyPointer(table[k])
       /\ pointerTargets(table[k]) \subseteq DeploymentRowKeys(table)
  /\ \E k \in DOMAIN table : isAccessKeyPointer(table[k])


\* C23: for identifiers without delimiter and marker, isDeployment holds of the
\* row key exactly when a deployment id was given, and the row key is the
\* unmarked key with one marker inserted before the delimiter that precedes
\* its last segment.
C23_LeafPredicateAgrees ==
  (last.op = "getHierarchicalAppRowKey" /\ last.status = "ok") =>
    LET appId == last.ids[1]
        deploymentId == last.ids[2]
        lastSegment == IF deploymentId = Undefined THEN appId ELSE deploymentId
        unmarked == generateHierarchicalAppKey(FALSE, appId, deploymentId)
        at == Len(unmarked) - Len(lastSegment)
    IN /\ isDeployment(last.ret) = (deploymentId # Undefined)
       /\ SubSeq(unmarked, at, at) = DELIMITER
       /\ last.ret = SubSeq(unmarked, 1, at - 1) \o LEAF_MARKER \o SubSeq(unmarked, at, Len(unmarked))

\* C23 witness: the row key of a deployment whose app id is a prefix of its
\* deployment id has been encoded.
C23_Witness ==
  /\ last.op = "getHierarchicalAppRowKey" /\ last.status = "ok"
  /\ last.ids = <<<<100>>, <<100, 48>>>>
  /\ isDeployment(last.ret)


\* The children of a parent, told by what the rows hold and where they lie.
accessKeysOf(t, accountId) ==
  {t[k].id : k \in {r \in DOMAIN t : /\ r[1] = getAccountPartitionKey(accountId)
                                      /\ r[2] # <<>>
                                      /\ "expires" \in DOMAIN t[r]}}

deploymentsOf(t, appId) ==
  {t[k].id : k \in {r \in DeploymentRowKeys(t) : r[1] = getAppPartitionKey(appId)}}

appsOf(t, accountId) ==
  {t[k].id : k \in {r \in AppKeys(t) :
                      \E p \in DOMAIN t : /\ p[1] = getAccountPartitionKey(accountId)
                                         /\ storesAddress(t[p])
                                         /\ r \in pointerTargets(t[p])}}

\* C24: a range scan that succeeds returns the children of the requested parent
\* and nothing else: getDeployments the deployment rows of the app, getApps the
\* apps pointed at from the account's partition, getAccessKeys the access-key
\* rows of the account.
C24_ScansReturnChildren ==
  [][(Returns /\ last'.status = "ok") =>
       /\ last'.op = "getAccessKeys" => last'.ret = accessKeysOf(table, last'.ids[1])
       /\ last'.op = "getDeployments" => last'.ret = deploymentsOf(table, last'.ids[1])
       /\ last'.op = "getApps" => last'.ret = appsOf(table, last'.ids[1])]_vars


\* The subtree a cascade is aimed at: the app row of X with the deployment rows
\* of X, or the one row of deployment D of X.
subtreeOf(t, appId, deploymentId) ==
  IF deploymentId = Undefined
  THEN {r \in DOMAIN t : \/ r \in AppKeys(t) /\ t[r].id = appId
                         \/ r \in DeploymentRowKeys(t) /\ r[1] = getAppPartitionKey(appId)}
  ELSE {r \in DeploymentRowKeys(t) : r[1] = getAppPartitionKey(appId) /\ t[r].id = deploymentId}

\* C25: the batch removeApp submits for app X holds X's app row and X's
\* deployment rows and nothing else, the batch removeDeployment submits for
\* deployment D holds D's row only, every batch lies in one partition, and no
\* batch is submitted when the scan matches no row.
C25_BatchIsTargetSubtree ==
  [][(Returns /\ last'.op \in {"removeApp", "removeDeployment"}) =>
       LET target == subtreeOf(table, last'.ids[1],
                               IF last'.op = "removeApp" THEN Undefined ELSE last'.ids[2])
       IN /\ pendingTx' \ pendingTx \subseteq {target}
          /\ {} \notin pendingTx'
          /\ (last'.status = "ok" /\ target # {}) => target \in pendingTx'
          /\ \A tableBatch \in pendingTx' : \A j, k \in tableBatch : j[1] = k[1]]_vars

\* removeDeployment has submitted the batch of one deployment of an app that
\* holds another one.
C25_Witness ==
  /\ last.op = "removeDeployment" /\ last.status = "ok"
  /\ \E tableBatch \in pendingTx :
       /\ Cardinality(tableBatch) = 1
       /\ \E r \in tableBatch, o \in DeploymentRowKeys(table) :
            r \in DeploymentRowKeys(table) /\ table[r].id = last.ids[2] /\ o # r /\ o[1] = r[1]


\* C26: no stored app row holds isCurrentAccount in an entry of its
\* collaborators map.
C26_MarkNeverStored ==
  \A k \in AppKeys(table) :
    \A e \in DOMAIN Parse(table[k].collaborators) :
      "isCurrentAccount" \notin DOMAIN Parse(table[k].collaborators)[e]

\* addCollaborator has written back an app it read with the caller's entry
\* marked: the app has its owner and one collaborator.
C26_Witness ==
  /\ last.op = "addCollaborator" /\ last.status = "ok"
  /\ \E k \in AppKeys(table) :
       /\ table[k].id = last.ids[1]
       /\ Cardinality(DOMAIN Parse(table[k].collaborators)) = 2


\* The Pointer rows that hold an address.
addressRows(t) == {k \in DOMAIN t : storesAddress(t[k])}

\* C27: updateApp leaves the stored collaborators map of every app and every
\* Pointer row as they were.
C27_UpdateAppKeepsCollaborators ==
  [][(Returns /\ last'.op = "updateApp") =>
       /\ AppKeys(table') = AppKeys(table)
       /\ \A k \in AppKeys(table) : table'[k].collaborators = table[k].collaborators
       /\ addressRows(table') = addressRows(table)
       /\ \A k \in addressRows(table) : table'[k] = table[k]]_vars

\* updateApp has renamed an app that has a collaborator, handed an app whose
\* map differs from the stored one.
C27_Witness ==
  /\ last.op = "updateApp" /\ last.status = "ok"
  /\ \E k \in AppKeys(table) :
       /\ table[k].id = last.ids[1]
       /\ table[k].name = OtherName
       /\ Cardinality(DOMAIN Parse(table[k].collaborators)) = 2


\* The stored `package` property of a row: one value, or none.
storedPackage(t, k) == IF "package" \in DOMAIN t[k] THEN {t[k].package} ELSE {}

\* C28: updateDeployment leaves the stored `package` property of every
\* deployment row and the history blobs as they were.
C28_UpdateDeploymentKeepsPackage ==
  [][(Returns /\ last'.op = "updateDeployment") =>
       /\ blobs' = blobs
       /\ DeploymentRowKeys(table') = DeploymentRowKeys(table)
       /\ \A k \in DeploymentRowKeys(table) :
            storedPackage(table', k) = storedPackage(table, k)]_vars

\* updateDeployment has renamed a deployment that holds a released package.
C28_Witness ==
  /\ last.op = "updateDeployment" /\ last.status = "ok"
  /\ \E k \in DeploymentRowKeys(table) :
       /\ table[k].id = last.ids[2]
       /\ table[k].name = <<101>>
       /\ storedPackage(table, k) # {}
       /\ \A package \in storedPackage(table, k) : Parse(package).label = Label(1)


\* The account ids in the stored collaborators map of app X, none when X has no row.
storedCollaboratorIds(t, appId) ==
  UNION {{Parse(t[k].collaborators)[e].accountId : e \in DOMAIN Parse(t[k].collaborators)} :
           k \in {r \in AppKeys(t) : t[r].id = appId}}

appPointerKey(accountId, appId) ==
  <<getAccountPartitionKey(accountId), getHierarchicalAccountRowKey(accountId, appId)>>

\* C29: once the calls have returned and the batches they submitted are
\* applied, an account's partition holds an app Pointer for X exactly when X's
\* row exists and holds the account id in its collaborators map.
C29_PointersMatchCollaborators ==
  pendingTx = {} =>
    \A accountId \in AccountIds, appId \in IssuedIds :
      appPointerKey(accountId, appId) \in DOMAIN table
        <=> accountId \in storedCollaboratorIds(table, appId)


\* Every deployment row of t lies in a partition that holds an app row.
deploymentsHaveParent(t) ==
  \A k \in DeploymentRowKeys(t) : \E a \in AppKeys(t) : a[1] = k[1]

\* C30: addDeployment for an app id that has no row fails with NotFound and
\* writes nothing, and whatever the calls and the delete batches in flight
\* do, every stored deployment row has its app row in its partition.
C30_DeploymentHasParent ==
  [][/\ (Returns /\ last'.op = "addDeployment" /\ last'.ids[1] \notin AppIds) =>
          (last'.status = "NotFound" /\ table' = table /\ blobs' = blobs)
     /\ deploymentsHaveParent(table')]_vars


\* The access-key rows and the address of the Pointer of each.
accessKeyRows(t) == {k \in DOMAIN t : k[2] # <<>> /\ "expires" \in DOMAIN t[k]}
shortcutOf(t, k) == <<getShortcutAccessKeyPartitionKey(t[k].name, FALSE), <<>>>>

\* C31: an access-key row exists exactly when its hash-partition Pointer does,
\* the Pointer names the account that owns the row and holds the row's
\* expiry; and after removeAccessKey the key no longer resolves (NotFound).
C31_TwoAddressesInStep ==
  /\ \A k \in accessKeyRows(table) :
       /\ shortcutOf(table, k) \in DOMAIN table
       /\ getAccountPartitionKey(table[shortcutOf(table, k)].accountId) = k[1]
       /\ table[shortcutOf(table, k)].expires = table[k].expires
  /\ \A p \in AccessKeyPointerKeys(table) :
       \E k \in accessKeyRows(table) : shortcutOf(table, k) = p
  /\ (last.op = "removeAccessKey" /\ last.status = "ok") =>
       Outcome(getAccountIdFromAccessKey(Start, last.ids[3], now)) = "NotFound"

\* updateAccessKey has given a new expiry to a key of the second account.
C31_Witness ==
  /\ last.op = "updateAccessKey" /\ last.status = "ok"
  /\ last.ids[1] = GenId(2)
  /\ \E k \in accessKeyRows(table) :
       /\ table[k].id = last.ids[2]
       /\ table[k].expires = 3
       /\ Cardinality(accessKeyRows(table)) = 2


\* The row of app X and its stored collaborators map.
appRowOf(t, appId) == CHOOSE k \in AppKeys(t) : t[k].id = appId
storedCollaborators(t, appId) == Parse(t[appRowOf(t, appId)].collaborators)

\* C32: removeCollaborator answers NotFound for an email that is no key of the
\* stored map and AlreadyExists for the owner's email, and writes nothing in
\* both cases; for another collaborator it takes that entry out of the map
\* and that account's app Pointer out of the table, and nothing else.
C32_RemoveCollaboratorCases ==
  [][(Returns /\ last'.op = "removeCollaborator" /\ last'.ids[1] \in AppIds) =>
       LET appId == last'.ids[1]
           email == last'.ids[2]
           map == storedCollaborators(table, appId)
       IN IF email \notin DOMAIN map
          THEN last'.status = "NotFound" /\ table' = table
          ELSE IF map[email].permission = "Owner"
          THEN last'.status = "AlreadyExists" /\ table' = table
          ELSE /\ last'.status = "ok"
               /\ table' =
                    Without([table EXCEPT ![appRowOf(table, appId)].collaborators =
                                            Stringify(Without(map, {email}))],
                            {appPointerKey(map[email].accountId, appId)})]_vars

\* removeCollaborator has refused to remove the owner of an app that has a
\* collaborator besides.
C32_Witness ==
  /\ last.op = "removeCollaborator" /\ last.status = "AlreadyExists"
  /\ last.ids[1] \in AppIds
  /\ Cardinality(DOMAIN storedCollaborators(table, last.ids[1])) >= 2


\* The labels of a history count up by one from entry to entry.
successor(label, next) ==
  \E n \in parseInt(Tail(label)) : label = S_v \o toDecimal(n) /\ next = S_v \o toDecimal(n + 1)

consecutive(h) == \A i \in 1..(Len(h) - 1) : successor(h[i].label, h[i + 1].label)

\* C33: a successful commitPackage labels its package v1 on an empty history
\* and v(n+1) after a last entry labelled vn; the label is the last one of the
\* stored history and none of the stored entries had it, and a history whose
\* labels count up by one keeps doing so, also when the oldest entry is evicted.
C33_LabelsConsecutive ==
  [][(Returns /\ last'.op = "commitPackage" /\ last'.status = "ok") =>
       LET old == Parse(blobs[last'.ids[3]])
           new == Parse(blobs'[last'.ids[3]])
       IN /\ IF Len(old) = 0 THEN last'.ret.label = <<118, 49>>
             ELSE successor(old[Len(old)].label, last'.ret.label)
          /\ new[Len(new)].label = last'.ret.label
          /\ consecutive(old) =>
               /\ consecutive(new)
               /\ \A i \in 1..Len(old) : old[i].label # last'.ret.label]_vars

\* A commit has been labelled v52 on a history that has evicted v1 and v2.
C33_Witness ==
  /\ last.op = "commitPackage" /\ last.status = "ok"
  /\ last.ret.label = <<118, 53, 50>>
  /\ LET h == Parse(blobs[last.ids[3]])
     IN /\ Len(h) = MAX_PACKAGE_HISTORY_LENGTH
        /\ h[1].label = <<118, 51>>
        /\ h[Len(h)].label = <<118, 53, 50>>


\* Callers p and q were both inside commitPackage at some moment.
overlapped(p, q) == q \in commits[p].overlaps \/ p \in commits[q].overlaps

\* C34: when two commitPackage calls on one deployment have overlapped and both
\* have returned successfully, the stored history holds both packages under
\* different labels and the row's package is the last entry of the history.
C34_NoLostCommit ==
  \A p, q \in Committers :
    (/\ p # q
     /\ commits[p].phase = "done" /\ commits[q].phase = "done"
     /\ commits[p].deploymentId = commits[q].deploymentId
     /\ overlapped(p, q)
     /\ \A r \in Committers : ~ inFlight(r))
    => LET deploymentId == commits[p].deploymentId
           h == Parse(blobs[deploymentId])
           rows == {k \in DeploymentRowKeys(table) : table[k].id = deploymentId}
       IN /\ commits[p].package.label # commits[q].package.label
          /\ \E i \in 1..Len(h) : h[i].appVersion = commits[p].package.appVersion
          /\ \E i \in 1..Len(h) : h[i].appVersion = commits[q].package.appVersion
          /\ \A k \in rows : Parse(table[k].package) = h[Len(h)]


\* The deployment key leads to a deployment that has been removed: its Pointer
\* names a deployment whose row is gone, and no delete batch is in flight.
keyOfRemoved(deploymentKey) ==
  LET address == <<getShortcutDeploymentKeyPartitionKey(deploymentKey),
                   getShortcutDeploymentKeyRowKey>>
  IN /\ validateParameters(<<deploymentKey>>)
     /\ pendingTx = {}
     /\ address \in DOMAIN table
     /\ \A k \in DeploymentRowKeys(table) : table[k].id # table[address].deploymentId

\* C35: once a deployment is removed, getDeploymentInfo and
\* getPackageHistoryFromDeploymentKey answer NotFound for its key, and
\* addDeployment can take the key again for an app that exists.
C35_RemovedKeyDoesNotResolve ==
  [][/\ (/\ Returns
         /\ last'.op \in {"getDeploymentInfo", "getPackageHistoryFromDeploymentKey"}
         /\ keyOfRemoved(last'.ids[1]))
        => last'.status = "NotFound"
     /\ (/\ Returns
         /\ last'.op = "addDeployment" /\ last'.ids[1] \in AppIds
         /\ keyOfRemoved(last'.ids[2]))
        => last'.status = "ok"]_vars


\* The app Pointers of the account that lead to no row.
danglingPointers(t, accountId) ==
  {p \in DOMAIN t : /\ p[1] = getAccountPartitionKey(accountId)
                    /\ isPointer(t[p])
                    /\ <<t[p].partitionKeyPointer, t[p].rowKeyPointer>> \notin DOMAIN t}

\* C36: getApps for an account whose partition holds an app Pointer to a row
\* that is gone succeeds, and returns the apps of the account whose rows exist.
C36_DanglingPointerTolerated ==
  [][(/\ Returns /\ last'.op = "getApps"
      /\ last'.ids[1] \in AccountIds
      /\ danglingPointers(table, last'.ids[1]) # {})
     => (last'.status = "ok" /\ last'.ret = appsOf(table, last'.ids[1]))]_vars

\* getApps has listed the one app left of an account that holds a dangling
\* Pointer besides.
C36_Witness ==
  /\ last.op = "getApps" /\ last.status = "ok"
  /\ danglingPointers(table, last.ids[1]) # {}
  /\ Cardinality(last.ret) = 1


\* The attempt ends as failed in this step: setup has thrown.
failsNow(a) ==
  /\ a \in DOMAIN attempts' /\ attempts'[a].phase = "failed"
  /\ (a \in DOMAIN attempts => attempts[a].phase # "failed")

\* The attempt ends as installed in this step.
installsNow(a) ==
  /\ a \in DOMAIN attempts /\ attempts[a].phase # "installed"
  /\ attempts'[a].phase = "installed"

\* C37: the table handle and the blob handle always come from the same
\* provisioning attempt; a setup that fails leaves both as they were, a setup
\* that succeeds assigns both; and once the constructor's setup has succeeded,
\* an operation called after a failed reinitialize still reaches the backend.
C37_HandlesReplacedAsPair ==
  /\ [](handles.tableClient = handles.blobService)
  /\ [][\A a \in 1..MaxAttempts : failsNow(a) => handles' = handles]_vars
  /\ [][\A a \in 1..MaxAttempts :
          installsNow(a) => handles' = [tableClient |-> a, blobService |-> a]]_vars
  /\ [][(/\ Returns /\ attempts[1].phase = "installed"
          /\ \E a \in DOMAIN attempts : a > 1 /\ attempts[a].phase = "failed")
         => last'.calls > 0]_vars

\* A reinitialize has failed on a fault of the service, the handles are those
\* of the constructor's setup, and checkHealth has passed.
C37_Witness ==
  /\ Len(attempts) > 1
  /\ attempts[2].phase = "failed" /\ attempts[2].error = faultError
  /\ handles = [tableClient |-> 1, blobService |-> 1]
  /\ last.op = "checkHealth" /\ last.status = "ok" /\ last.calls > 0

====
